---- MODULE Spec2Model ----
(***************************************************************************)
(* A model of the travel simulation engine: the per-mode transport network *)
(* (edge times, path durations, time-stepped traversal), the clock, and    *)
(* the traveler state machine of PersonAgent.step.                         *)
(*                                                                         *)
(* All times are whole minutes.  The edge lengths of the scenario graph    *)
(* are chosen so that every division in the edge-time formula is exact.    *)
(***************************************************************************)
EXTENDS Integers, Sequences, FiniteSets, TLC

(***************************************************************************)
(* Bounds of the model.                                                    *)
(***************************************************************************)
\* Largest time budget of one traverse call in the traversal specification.
MaxBudget == 6
\* Largest number of traverse calls made on one route.
MaxCalls == 4

(***************************************************************************)
(* Program constants.                                                      *)
(***************************************************************************)
\* TransportModel.__init__: time_step (minutes per model step).
TimeStep == 5
\* TransportModel.__init__: default_speed_limit (km/h).
DefaultLimit == 30
\* TransportModel.__init__: car_speed_factor = 0.75 = 3/4.
SpeedFactorNum == 3
SpeedFactorDen == 4
\* Person.walk_speed and Person.bike_speed (km/h).
WalkSpeed == 5
BikeSpeed == 15

None == [tag |-> "None"]

Modes == {"walk", "bike", "drive"}

(***************************************************************************)
(* The scenario graph (the same topology for every mode): three nodes,     *)
(* a two-edge way 1-2-3 and a longer direct edge 1-3, both directions.     *)
(***************************************************************************)
Nodes == {1, 2, 3}

EdgeLength == [e \in {<<1, 2>>, <<2, 1>>, <<2, 3>>, <<3, 2>>, <<1, 3>>, <<3, 1>>} |->
                 CASE e \in {<<1, 2>>, <<2, 1>>} -> 750
                   [] e \in {<<2, 3>>, <<3, 2>>} -> 1500
                   [] OTHER -> 3000]

EdgeHighway == [e \in DOMAIN EdgeLength |->
                 IF e \in {<<1, 3>>, <<3, 1>>} THEN "primary" ELSE "residential"]

\* TransportNetwork.edge_info: the info dict of the edge (u, v).
edge_info(u, v) ==
    [length |-> EdgeLength[<<u, v>>], highway |-> EdgeHighway[<<u, v>>]]

\* Person._get_speed: the speed for the mode (None for driving).
get_speed(mode) ==
    CASE mode = "walk" -> WalkSpeed
      [] mode = "bike" -> BikeSpeed
      [] OTHER -> 0

\* DriveNetwork._get_edge_time / ActiveNetwork._get_edge_time:
\*   drive: ((length / 1000) / (limit * factor)) * 60
\*   walk/bike: ((length / 1000) / speed) * 60
get_edge_time(mode, attrs, speed) ==
    IF mode = "drive"
    THEN (attrs.length * 60 * SpeedFactorDen) \div (1000 * DefaultLimit * SpeedFactorNum)
    ELSE (attrs.length * 60) \div (1000 * speed)

\* The time of edge path[i] -> path[i + 1].
EdgeTimeAt(mode, path, i) ==
    get_edge_time(mode, edge_info(path[i], path[i + 1]), get_speed(mode))

\* TransportNetwork.get_path_duration: the sum of the edge times of the path.
RECURSIVE SumEdgeTimes(_, _, _)
SumEdgeTimes(mode, path, i) ==
    IF i >= Len(path) THEN 0
    ELSE EdgeTimeAt(mode, path, i) + SumEdgeTimes(mode, path, i + 1)

get_path_duration(mode, path) == SumEdgeTimes(mode, path, 1)

\* list.index(node): the first position of node in path.
IndexOf(path, node) == CHOOSE i \in 1..Len(path) :
                          /\ path[i] = node
                          /\ \A j \in 1..(i - 1) : path[j] # node

\* Route.from_node / Route.trim_path_to_node: the path from node onwards.
from_node(path, node) == SubSeq(path, IndexOf(path, node), Len(path))

\* TransportNetwork._get_final_edge: the first edge whose end lies strictly
\* after `time`; None when the loop runs off the end of the path.
RECURSIVE FinalEdgeFrom(_, _, _, _, _)
FinalEdgeFrom(mode, path, time, i, cumulative_time) ==
    IF i >= Len(path) THEN None
    ELSE LET edge_time == EdgeTimeAt(mode, path, i)
         IN  IF cumulative_time + edge_time > time
             THEN [u |-> path[i], v |-> path[i + 1], edge_time |-> edge_time,
                   time_along_edge |-> time - cumulative_time]
             ELSE FinalEdgeFrom(mode, path, time, i + 1, cumulative_time + edge_time)

\* Mutant of _get_final_edge: the comparison is >= instead of >.
RECURSIVE FinalEdgeFromGe(_, _, _, _, _)
FinalEdgeFromGe(mode, path, time, i, cumulative_time) ==
    IF i >= Len(path) THEN None
    ELSE LET edge_time == EdgeTimeAt(mode, path, i)
         IN  IF cumulative_time + edge_time >= time
             THEN [u |-> path[i], v |-> path[i + 1], edge_time |-> edge_time,
                   time_along_edge |-> time - cumulative_time]
             ELSE FinalEdgeFromGe(mode, path, time, i + 1, cumulative_time + edge_time)

get_final_edge_ge(mode, path, time) == FinalEdgeFromGe(mode, path, time, 1, 0)

get_final_edge(mode, path, time) == FinalEdgeFrom(mode, path, time, 1, 0)

\* TransportNetwork._get_point_along_edge: the point the proportion
\* num / den along the edge (u, v).
get_point_along_edge(edge, num, den) ==
    [u |-> edge.u, v |-> edge.v, num |-> num, den |-> den]

\* Mutant of traverse_route: the leftover time of an arrival forgets the
\* offset (time_step - path_time).
traverse_route_no_offset(mode, full_path, progress, time_step) ==
    LET remaining_path == from_node(full_path, progress.node)
        path_time      == get_path_duration(mode, remaining_path)
        traversal_time == time_step + progress.offset
    IN  IF traversal_time > path_time
        THEN [error |-> "none",
              progress |-> [node |-> full_path[Len(full_path)], offset |-> 0],
              position |-> None,
              time_left |-> time_step - path_time]
        ELSE LET final == get_final_edge(mode, remaining_path, traversal_time)
             IN  IF final = None
                 THEN [error |-> "TypeError", progress |-> progress,
                       position |-> None, time_left |-> 0]
                 ELSE [error |-> "none",
                       progress |-> [node |-> final.u, offset |-> final.time_along_edge],
                       position |-> get_point_along_edge(final, final.time_along_edge,
                                                         final.edge_time),
                       time_left |-> 0]

\* TransportNetwork.traverse_route.  The result carries `error`: the
\* exception the call raises ("TypeError" when _get_final_edge returns None
\* and the caller unpacks it), or "none".
traverse_route(mode, full_path, progress, time_step) ==
    LET remaining_path == from_node(full_path, progress.node)
        path_time      == get_path_duration(mode, remaining_path)
        traversal_time == time_step + progress.offset
    IN  IF traversal_time > path_time
        THEN [error |-> "none",
              progress |-> [node |-> full_path[Len(full_path)], offset |-> 0],
              position |-> None,
              time_left |-> traversal_time - path_time]
        ELSE LET final == get_final_edge(mode, remaining_path, traversal_time)
             IN  IF final = None
                 THEN [error |-> "TypeError", progress |-> progress,
                       position |-> None, time_left |-> 0]
                 ELSE [error |-> "none",
                       progress |-> [node |-> final.u, offset |-> final.time_along_edge],
                       position |-> get_point_along_edge(final, final.time_along_edge,
                                                         final.edge_time),
                       time_left |-> 0]

(***************************************************************************)
(* The candidate paths of the scenario graph.                              *)
(***************************************************************************)
\* TransportNetwork.plan_paths: the simple paths from source to target,
\* cheapest first (the two-edge way 1-2-3 is shorter than the edge 1-3).
plan_paths(source, target) ==
    IF source = target THEN << <<source>> >>
    ELSE CASE {source, target} = {1, 3} ->
                << <<source, 2, target>>, <<source, target>> >>
           [] {source, target} = {1, 2} ->
                << <<source, target>>, <<source, 3, target>> >>
           [] OTHER ->
                << <<source, target>>, <<source, 1, target>> >>

AllPaths == UNION {{plan_paths(s, t)[k] : k \in 1..Len(plan_paths(s, t))} :
                     s \in Nodes, t \in Nodes}

(***************************************************************************)
(* The clock (transport_model/time.py).                                    *)
(***************************************************************************)
Time(hour, minute) == [hour |-> hour, minute |-> minute]

\* n_mins_from_now without the wrap of the hour at 24.
n_mins_from_now_no_wrap(t, n) ==
    LET new_minute == t.minute + n
    IN  IF new_minute >= 60
        THEN Time(t.hour + 1, new_minute - 60)
        ELSE Time(t.hour, new_minute)

\* Time.n_mins_from_now: the time n minutes later (n assumed < 60).
n_mins_from_now(t, n) ==
    LET new_minute == t.minute + n
    IN  IF new_minute >= 60
        THEN Time(IF t.hour + 1 = 24 THEN 0 ELSE t.hour + 1, new_minute - 60)
        ELSE Time(t.hour, new_minute)

\* time_to without the branch for an end on the next day.
time_to_same_day(t, end) ==
    (60 * (end.hour - t.hour)) + (end.minute - t.minute)

\* time_to whose next-day branch is taken for equal times as well.
time_to_full_day(t, end) ==
    IF end.hour < t.hour \/ (end.hour = t.hour /\ end.minute <= t.minute)
    THEN (60 * (23 - t.hour)) + (60 - t.minute) + (60 * end.hour) + end.minute
    ELSE (60 * (end.hour - t.hour)) + (end.minute - t.minute)

\* Time.time_to: the gap from t forwards to end, in minutes.
time_to(t, end) ==
    IF end.hour < t.hour \/ (end.hour = t.hour /\ end.minute < t.minute)
    THEN (60 * (23 - t.hour)) + (60 - t.minute) + (60 * end.hour) + end.minute
    ELSE (60 * (end.hour - t.hour)) + (end.minute - t.minute)

\* The day-start trigger time, Time(4, 0).
DayStart == Time(4, 0)

(***************************************************************************)
(* The scenario's locations and the surrounding model's lookups.           *)
(***************************************************************************)
Locations == {"home", "work"}

\* TransportModel.is_location.
is_location(name) == name \in Locations

\* TransportModel.get_location_coords.
get_location_coords(name) == [loc |-> name]

\* TransportNetwork.get_node_coords.
get_node_coords(node) == [node |-> node]

\* TransportNetwork.get_nearest_node of a location's coordinates.
get_nearest_node(coords) == IF coords.loc = "home" THEN 1 ELSE 3

(***************************************************************************)
(* The oracle's answers.                                                   *)
(***************************************************************************)
\* Answers to "where to do this action": a location name or something else.
LocationAnswers == Locations \cup {"nowhere"}

\* The lines of a day-plan response: "HH:MM action" lines and other text.
PlanLine(hour, minute) == [kind |-> "entry", time |-> Time(hour, minute), action |-> "act"]
JunkLine == [kind |-> "junk"]

PlanResponses ==
    { <<>>,
      <<JunkLine>>,
      <<PlanLine(4, 12)>>,
      <<JunkLine, PlanLine(4, 30)>>,
      <<PlanLine(4, 10), PlanLine(4, 12)>>,
      <<PlanLine(4, 15), PlanLine(4, 22)>>,
      <<PlanLine(4, 30), JunkLine, PlanLine(5, 20)>>,
      <<PlanLine(3, 40)>> }

\* Person._break_down_plan: the lines that match the time pattern, in order.
IsPlanEntry(line) == line.kind = "entry"
break_down_plan(response) ==
    LET lines == SelectSeq(response, IsPlanEntry)
    IN  [i \in 1..Len(lines) |-> [time |-> lines[i].time, action |-> lines[i].action]]

(***************************************************************************)
(* Destination resolution and loading the next plan step.                  *)
(***************************************************************************)
\* PersonAgent._get_action_location with `attempts` attempts: the first
\* answer that is a known location, or the current location after the last
\* attempt failed.  `asked` counts the oracle calls made.
RECURSIVE ActionLocationFrom(_, _, _, _)
ActionLocationFrom(location, answers, k, attempts) ==
    IF k > attempts THEN [location |-> location, asked |-> attempts, valid |-> FALSE]
    ELSE IF is_location(answers[k])
         THEN [location |-> answers[k], asked |-> k, valid |-> TRUE]
         ELSE ActionLocationFrom(location, answers, k + 1, attempts)

\* Mutant of _get_action_location: only two attempts are made.
get_action_location_two(location, answers) == ActionLocationFrom(location, answers, 1, 2)

\* PersonAgent._get_action_location: three attempts.
get_action_location(location, answers) == ActionLocationFrom(location, answers, 1, 3)

\* The outcomes of _get_action_location at `location` over every three
\* answers the oracle can give, each with the answers it consumed.
ResolveOutcomes(location) ==
    {LET r == get_action_location(location, answers)
     IN  [location |-> r.location, asked |-> r.asked,
          answers |-> SubSeq(answers, 1, r.asked)] :
       answers \in [1..3 -> LocationAnswers]}

\* PersonAgent._next_plan_step from the k-th entry of the plan: pops plan
\* entries until one needs a trip.  The set of its outcomes over the
\* oracle's answers: the remaining plan, the trip loaded (or None) and, per
\* entry popped, what its resolution asked and got.
RECURSIVE NextPlanStepFrom(_, _, _)
NextPlanStepFrom(plan, location, k) ==
    IF k > Len(plan)
    THEN {[daily_plan |-> <<>>, trip |-> None, resolved |-> <<>>]}
    ELSE UNION {
           LET log == [time |-> plan[k].time, answers |-> r.answers,
                       asked |-> r.asked, destination |-> r.location]
           IN  IF r.location = location
               THEN \* don't need to move - load the next step
                    {[rest EXCEPT !.resolved = <<log>> \o @] :
                       rest \in NextPlanStepFrom(plan, location, k + 1)}
               ELSE {[daily_plan |-> SubSeq(plan, k + 1, Len(plan)),
                      trip |-> [origin |-> location, destination |-> r.location,
                                start_time |-> plan[k].time],
                      resolved |-> <<log>>]} :
           r \in ResolveOutcomes(location)}

next_plan_step(plan, location) == NextPlanStepFrom(plan, location, 1)

(***************************************************************************)
(* Route choice.                                                           *)
(***************************************************************************)
\* PersonAgent._mode_possible_routes: a Route for every path plan_paths
\* yields between the nearest nodes of origin and destination.
mode_possible_routes(origin, destination, mode) ==
    LET paths == plan_paths(get_nearest_node(get_location_coords(origin)),
                            get_nearest_node(get_location_coords(destination)))
    IN  [i \in 1..Len(paths) |-> [mode |-> mode, path |-> paths[i], path_offset |-> 0]]

\* _get_candidate_routes without the ownership tests.
get_candidate_routes_all_modes(origin, destination, has_bike, has_car) ==
    mode_possible_routes(origin, destination, "walk")
      \o mode_possible_routes(origin, destination, "bike")
      \o mode_possible_routes(origin, destination, "drive")

\* PersonAgent._get_candidate_routes: walking always, cycling and driving
\* by ownership.
get_candidate_routes(origin, destination, has_bike, has_car) ==
    mode_possible_routes(origin, destination, "walk")
      \o (IF has_bike THEN mode_possible_routes(origin, destination, "bike") ELSE <<>>)
      \o (IF has_car THEN mode_possible_routes(origin, destination, "drive") ELSE <<>>)

\* routes[route_id] of a Python list: 0-based, negative indices count from
\* the end, anything else raises IndexError.
list_index(routes, route_id) ==
    LET n == Len(routes)
    IN  IF 0 <= route_id /\ route_id < n
        THEN [error |-> "none", route |-> routes[route_id + 1]]
        ELSE IF -n <= route_id /\ route_id < 0
             THEN [error |-> "none", route |-> routes[n + route_id + 1]]
             ELSE [error |-> "IndexError", route |-> None]

\* PersonAgent._choose_a_route: the candidate the oracle's index selects.
choose_a_route(origin, destination, has_bike, has_car, route_id) ==
    list_index(get_candidate_routes(origin, destination, has_bike, has_car), route_id)

\* The indices the oracle may return for n candidates: every valid one and
\* some on either side of the range.
RouteIds(n) == {0 - (n + 1), -1} \cup (0..n)

\* The guard of PersonAgent.step for planning the pending trip's route.
\* Mutant: <= instead of <.
route_is_due_le(now, a_trip) == time_to(now, a_trip.start_time) <= 2 * TimeStep

route_is_due(now, a_trip) == time_to(now, a_trip.start_time) < 2 * TimeStep

\* The offset PersonAgent._plan_route gives the route.
\* Mutant: the sign is the other way round.
initial_offset_swapped(now, a_trip) == time_to(now, a_trip.start_time) - TimeStep

initial_offset(now, a_trip) == TimeStep - time_to(now, a_trip.start_time)

\* A guard that never lets the day be planned.
day_plan_is_due_never(now) == FALSE

\* The guard of PersonAgent.step for planning the day.
day_plan_is_due(now) == time_to(now, DayStart) < TimeStep

(***************************************************************************)
(* Comfort sampling.                                                       *)
(***************************************************************************)
\* PersonAgent._get_road_type: the edge has no maxspeed attribute.
get_road_type(attrs) == [highway |-> attrs.highway, maxspeed |-> "n/a"]

RoadTypes == {get_road_type(edge_info(e[1], e[2])) : e \in DOMAIN EdgeLength}

\* The oracle's comfort answers: text that parses as an integer, or not.
ComfortAnswers == {[parses |-> TRUE, value |-> 7], [parses |-> FALSE, value |-> 0]}

\* RoadType objects: the two fields, and the object's identity.
RoadObjects == {[id |-> i, highway |-> r.highway, maxspeed |-> r.maxspeed] :
                  i \in 1..2, r \in RoadTypes}

\* A dictionary key that tells objects apart.
road_key_identity(road) == road

\* RoadType.__hash__ and the dataclass's __eq__: a RoadType is a
\* dictionary key by its fields.
road_key(road) == [highway |-> road.highway, maxspeed |-> road.maxspeed]

\* A lookup that finds nothing, whatever is stored.
get_comfort_forgetful(memory, road, mode) == None

\* TravelMemory.get_comfort: the stored value, or None.
get_comfort(memory, road, mode) ==
    IF <<road, mode>> \in DOMAIN memory THEN [value |-> memory[<<road, mode>>]] ELSE None

\* TravelMemory.store_comfort.
store_comfort(memory, road, mode, comfort) ==
    [k \in DOMAIN memory \cup {<<road, mode>>} |->
        IF k = <<road, mode>> THEN comfort ELSE memory[k]]

\* The loop of PersonAgent._remember_comfort over the edges nodes[i] ->
\* nodes[i + 1]; acc carries the cache, the entry being built, the road
\* types the oracle was asked about and the error raised (int() of an
\* answer that does not parse raises ValueError).
RECURSIVE RememberFrom(_, _, _, _, _)
RememberFrom(mode, nodes, i, answers, acc) ==
    IF i >= Len(nodes) \/ acc.error # "none" THEN acc
    ELSE LET info   == edge_info(nodes[i], nodes[i + 1])
             road   == get_road_type(info)
             cached == get_comfort(acc.comfort_memory, road, mode)
         IN  IF cached = None /\ ~answers[road].parses
             THEN [acc EXCEPT !.error = "ValueError", !.asked = Append(@, road)]
             ELSE LET comfort == IF cached = None THEN answers[road].value
                                 ELSE cached.value
                  IN  RememberFrom(mode, nodes, i + 1, answers,
                        [error |-> "none",
                         comfort_memory |->
                             IF cached = None
                             THEN store_comfort(acc.comfort_memory, road, mode, comfort)
                             ELSE acc.comfort_memory,
                         memory_entry |->
                             [acc.memory_entry EXCEPT
                                 !.edge_comfort = Append(@, comfort),
                                 !.edge_lengths = Append(@, info.length)],
                         asked |-> IF cached = None THEN Append(acc.asked, road)
                                   ELSE acc.asked])

\* _remember_comfort without the early return for driving.
remember_comfort_every_mode(mode, old_path, new_path, memory, entry, answers) ==
    LET start == [error |-> "none", comfort_memory |-> memory,
                  memory_entry |-> entry, asked |-> <<>>]
        NotInNew(n) == \A j \in 1..Len(new_path) : new_path[j] # n
        nodes == Append(SelectSeq(old_path, NotInNew), new_path[1])
    IN  RememberFrom(mode, nodes, 1, answers, start)

\* _remember_comfort sampling every edge of the old path up to the new
\* path's start, traversed on this step or before.
remember_comfort_whole_path(mode, old_path, new_path, memory, entry, answers) ==
    LET start == [error |-> "none", comfort_memory |-> memory,
                  memory_entry |-> entry, asked |-> <<>>]
        nodes == [i \in 1..(Len(entry.path) - Len(new_path) + 1) |-> entry.path[i]]
    IN  IF mode = "drive" THEN start
        ELSE RememberFrom(mode, nodes, 1, answers, start)

\* _remember_comfort without the start of the new path appended to the
\* nodes passed: the edge that ends there is left out.
remember_comfort_skip_last(mode, old_path, new_path, memory, entry, answers) ==
    LET start == [error |-> "none", comfort_memory |-> memory,
                  memory_entry |-> entry, asked |-> <<>>]
        NotInNew(n) == \A j \in 1..Len(new_path) : new_path[j] # n
        nodes == SelectSeq(old_path, NotInNew)
    IN  IF mode = "drive" THEN start
        ELSE RememberFrom(mode, nodes, 1, answers, start)

\* PersonAgent._remember_comfort: nothing for driving; otherwise a comfort
\* value for every edge from the old path's start to the new path's start.
remember_comfort(mode, old_path, new_path, memory, entry, answers) ==
    LET start == [error |-> "none", comfort_memory |-> memory,
                  memory_entry |-> entry, asked |-> <<>>]
        NotInNew(n) == \A j \in 1..Len(new_path) : new_path[j] # n
        nodes == Append(SelectSeq(old_path, NotInNew), new_path[1])
    IN  IF mode = "drive" THEN start
        ELSE RememberFrom(mode, nodes, 1, answers, start)

\* The memory entry PersonAgent._plan_route starts for the chosen route.
init_route_entry(mode, path) ==
    [mode |-> mode, path |-> path, edge_comfort |-> <<>>, edge_lengths |-> <<>>]

\* The end time PersonAgent._calculate_trip_time constructs.
trip_end_time(now, mins_left) == n_mins_from_now(now, TimeStep - mins_left)

\* _calculate_trip_time taking the end of the tick as the end of the trip.
calculate_trip_time_whole_tick(now, a_trip, mins_left) ==
    time_to(a_trip.start_time, n_mins_from_now(now, TimeStep))

\* PersonAgent._calculate_trip_time.
calculate_trip_time(now, a_trip, mins_left) ==
    time_to(a_trip.start_time, n_mins_from_now(now, TimeStep - mins_left))

(***************************************************************************)
(* Route memory.  Averages are exact rationals num/den in lowest terms.    *)
(***************************************************************************)
RECURSIVE GCD(_, _)
GCD(a, b) == IF b = 0 THEN a ELSE GCD(b, a % b)

Abs(n) == IF n < 0 THEN 0 - n ELSE n

\* The rational num/den (den > 0) in lowest terms.
Rat(num, den) ==
    LET g == GCD(Abs(num), den)
    IN  [num |-> num \div g, den |-> den \div g]

RatTimes(r, k) == Rat(r.num * k, r.den)
RatPlus(r, q) == Rat(r.num * q.den + q.num * r.den, r.den * q.den)
RatOver(r, k) == Rat(r.num, r.den * k)

\* The average with the old mean counted once, whatever the count.
running_average_unweighted(mean, count, new) == RatOver(RatPlus(mean, new), 2)

\* The running average ((mean * count) + new) / (count + 1).
running_average(mean, count, new) == RatOver(RatPlus(RatTimes(mean, count), new), count + 1)

\* MemoryEntry.update with the count left as it was.
update_keep_count(entry, new_time) ==
    [entry EXCEPT !.travel_time = running_average(@, entry.count, new_time)]

\* MemoryEntry.update: the travel time average, then the count.
update(entry, new_time) ==
    [entry EXCEPT !.travel_time = running_average(@, entry.count, new_time),
                  !.count = @ + 1]

\* ActiveMemoryEntry.active_update: the comfort average, then update.
active_update(entry, new_time, new_comfort) ==
    update([entry EXCEPT !.comfort = running_average(@, entry.count, new_comfort)],
           new_time)

\* A new entry of the route memory: active (with comfort and the per-trip
\* accumulation) for walk and bike, passive for drive.
new_route_entry(mode, path) ==
    [mode |-> mode, path |-> path, travel_time |-> Rat(0, 1), count |-> 0,
     comfort |-> IF mode \in {"bike", "walk"} THEN Rat(0, 1) ELSE None,
     edge_comfort |-> <<>>, edge_lengths |-> <<>>]

\* TravelMemory.get_route_entry(mode, path): the position of the entry with
\* exactly this mode and path, 0 when there is none.
get_route_entry(route_memory, mode, path) ==
    IF \E i \in 1..Len(route_memory) :
         route_memory[i].mode = mode /\ route_memory[i].path = path
    THEN CHOOSE i \in 1..Len(route_memory) :
           /\ route_memory[i].mode = mode /\ route_memory[i].path = path
           /\ \A j \in 1..(i - 1) :
                ~(route_memory[j].mode = mode /\ route_memory[j].path = path)
    ELSE 0

\* TravelMemory.init_route_entry(mode, path): the existing entry, or a new
\* one appended to the memory.
init_or_get(route_memory, mode, path) ==
    LET found == get_route_entry(route_memory, mode, path)
    IN  IF found # 0 THEN [route_memory |-> route_memory, index |-> found]
        ELSE [route_memory |-> Append(route_memory, new_route_entry(mode, path)),
              index |-> Len(route_memory) + 1]

RECURSIVE WeightedSum(_, _, _)
WeightedSum(values, weights, i) ==
    IF i > Len(values) THEN 0
    ELSE values[i] * weights[i] + WeightedSum(values, weights, i + 1)

\* The length-weighted mean of the comfort values sampled on this trip.
trip_comfort(entry) ==
    Rat(WeightedSum(entry.edge_comfort, entry.edge_lengths, 1),
        WeightedSum(entry.edge_lengths, [i \in 1..Len(entry.edge_lengths) |-> 1], 1))

\* MemoryEntry.complete_memory(trip_time): the trip is folded into the
\* entry's averages and the per-trip accumulation is emptied.
complete_memory(entry, trip_time) ==
    LET folded == IF entry.comfort = None THEN update(entry, Rat(trip_time, 1))
                  ELSE active_update(entry, Rat(trip_time, 1), trip_comfort(entry))
    IN  [folded EXCEPT !.edge_comfort = <<>>, !.edge_lengths = <<>>]

(***************************************************************************)
(* State.                                                                  *)
(***************************************************************************)
\* The traversal specification: one route and the progress of a sequence of
\* traverse calls along it.
VARIABLES
    t_mode,        \* route.mode
    t_path,        \* route.path (the full path)
    t_tick,        \* the tick length the initial offset was computed for
    t_offset0,     \* the offset the route started with
    t_progress,    \* RouteProgress (node, offset)
    t_position,    \* the position the last call returned
    t_left,        \* the leftover time the last call returned
    t_budget,      \* the time budget of the last call
    t_given,       \* sum of the budgets of the calls so far
    t_consumed,    \* sum of budget minus leftover over the calls so far
    t_calls,       \* number of calls so far
    t_status       \* "start", "moving", "arrived" or "failed"

\* The model and its one traveler.
VARIABLES
    day,            \* TransportModel.day
    time,           \* TransportModel.time
    running,        \* mesa.Model.running
    crashed,        \* the exception that ended the run, or "none"
    owns_bike,      \* Person.owns_bike
    owns_car,       \* Person.owns_car
    daily_plan,     \* Person.daily_plan
    trip,           \* PersonAgent.trip
    route,          \* PersonAgent.route
    location,       \* PersonAgent.location
    position,       \* PersonAgent.geometry
    memory_entry,   \* PersonAgent.memory_entry
    comfort_memory, \* Person.memory.comfort_memory
    journeys,       \* the rows of the data collector's journeys table
    csv_written,    \* how many times the journeys table was written to disk
    ev              \* what the traveler's last step did and was answered

\* The travel memory specification: the travelers of a scenario, each
\* with its own memory, planning and following routes from home to work.
VARIABLES
    m_memory,      \* Person.memory of each traveler (route and comfort memory)
    m_route,       \* PersonAgent.route of each traveler
    m_entry,       \* PersonAgent.memory_entry: the position of the entry in use
    m_chosen,      \* the route as it was chosen at routing time
    m_recorded,    \* the trip times folded into each traveler's entries so far
    m_asks,        \* how often each traveler asked for a comfort rating, by key
    m_trips,       \* the number of routes planned so far
    m_crashed,     \* the exception that ended the run, or "none"
    m_sampled,     \* the edge lengths each traveler's last arrival folded
    m_ev           \* what the last operation did and was answered

\* The running average specification: one memory entry and the trip times
\* recorded on it.
VARIABLES
    e_entry,       \* a MemoryEntry (or ActiveMemoryEntry)
    e_recorded     \* the trip times given to its update calls, in order

\* The comfort cache specification: one comfort cache and the calls made
\* on it with RoadType objects.
VARIABLES
    k_memory,      \* TravelMemory.comfort_memory
    k_stored,      \* for each key stored so far, the last value and the object used
    k_got          \* the last get_comfort call: the object, the mode, the result

\* The state of candidate generation on a graph with a given number of
\* simple paths between the two nodes.
VARIABLES
    g_ways,        \* the number of simple paths from origin to destination
    g_routes,      \* the list the last call of _get_candidate_routes returned
    g_left,        \* per mode drawn from, the paths left in the iterator plan_paths gave
    g_seen         \* the graph sizes candidates were generated for

\* The state of parsing one day-plan response.
VARIABLES
    p_lines,       \* the lines of the response, each in its parts
    p_text,        \* the response: the text the oracle returned
    p_plan,        \* Person.daily_plan
    p_error,       \* the exception _break_down_plan raised, or "none"
    p_done         \* whether _break_down_plan has run

\* The state of one advance of a clock.
VARIABLES
    c_time,        \* the Time advanced (TransportModel.time)
    c_day,         \* TransportModel.day
    c_ev,          \* the last advance: the call, the time before, the step, the rollover
    c_done         \* whether the clock has been advanced

\* The state of one measurement of the gap between two times.
VARIABLES
    d_a,           \* the Time time_to is called on
    d_b,           \* the Time it is asked the gap to
    d_gap,         \* what time_to returned
    d_ev           \* the last call: the operation and the number of minutes advanced

\* The state of one trip of a traveler, from the tick its route is planned.
VARIABLES
    r_time,        \* TransportModel.time
    r_trip,        \* PersonAgent.trip
    r_route,       \* PersonAgent.route (None before the route is planned)
    r_status,      \* "none", "pending", "travelling", "arrived" or "failed"
    r_left,        \* the time left traverse_route returned on arrival
    r_end,         \* the end time _calculate_trip_time constructed
    r_chosen,      \* PersonAgent.memory_entry.path: the full path as chosen
    r_trip_time    \* what _calculate_trip_time returned

\* The state of a model with several travelers, tick by tick.
VARIABLES
    s_time,        \* TransportModel.time
    s_world,       \* every traveler's agent and travel memory, and the exception raised
    s_oracle,      \* the oracle: per traveler, its route choice and comfort answers
    s_order        \* the order shuffle_do stepped the travelers in, last tick

\* The journey memory of one traveler (routes.py TravelMemory).
VARIABLES
    j_memory,      \* TravelMemory.journey_memory: (origin, destination) -> entries
    j_got,         \* the key and position of the entry the last call returned
    j_calls,       \* how many entries have been requested
    j_ev           \* the last call

\* A road network with parallel edges, and the last call made on it.
VARIABLES
    h_graph,       \* TransportNetwork.graph: (u, v) -> the parallel edges, key 0 first
    h_ev           \* the last call and what it returned

VARIABLES
    l_cache,       \* the rows of the cache table: (system_prompt, content, response)
    l_asks,        \* per prompt pair, the model calls since the pair was last dropped
    l_ops,         \* the number of calls made so far
    l_ev           \* what the last call was, what it returned and what it asked

tvars == <<t_mode, t_path, t_tick, t_offset0, t_progress, t_position, t_left,
           t_budget, t_given, t_consumed, t_calls, t_status>>

avars == <<day, time, running, crashed, owns_bike, owns_car, daily_plan, trip,
           route, location, position, memory_entry, comfort_memory, journeys,
           csv_written, ev>>

mvars == <<m_memory, m_route, m_entry, m_chosen, m_recorded, m_asks, m_trips,
           m_crashed, m_sampled, m_ev>>

evars == <<e_entry, e_recorded>>

kvars == <<k_memory, k_stored, k_got>>
gvars == <<g_ways, g_routes, g_left, g_seen>>
pvars == <<p_lines, p_text, p_plan, p_error, p_done>>
cvars == <<c_time, c_day, c_ev, c_done>>
dvars == <<d_a, d_b, d_gap, d_ev>>
rvars == <<r_time, r_trip, r_route, r_status, r_left, r_end, r_chosen, r_trip_time>>
svars == <<s_time, s_world, s_oracle, s_order>>
jvars == <<j_memory, j_got, j_calls, j_ev>>
hvars == <<h_graph, h_ev>>
lvars == <<l_cache, l_asks, l_ops, l_ev>>

vars == <<tvars, avars, mvars, evars, kvars, gvars, pvars, cvars, dvars, rvars, svars, jvars, hvars, lvars>>

\* The variables each specification leaves alone.
NonTraverse == <<avars, mvars, evars, kvars, gvars, pvars, cvars, dvars, rvars, svars, jvars, hvars, lvars>>
NonAgent == <<tvars, mvars, evars, kvars, gvars, pvars, cvars, dvars, rvars, svars, jvars, hvars, lvars>>
NonMemory == <<tvars, avars, evars, kvars, gvars, pvars, cvars, dvars, rvars, svars, jvars, hvars, lvars>>
NonAverage == <<tvars, avars, mvars, kvars, gvars, pvars, cvars, dvars, rvars, svars, jvars, hvars, lvars>>
NonCache == <<tvars, avars, mvars, evars, gvars, pvars, cvars, dvars, rvars, svars, jvars, hvars, lvars>>
NonCandidates == <<tvars, avars, mvars, evars, kvars, pvars, cvars, dvars, rvars, svars, jvars, hvars, lvars>>
NonPlan == <<tvars, avars, mvars, evars, kvars, gvars, cvars, dvars, rvars, svars, jvars, hvars, lvars>>
NonClock == <<tvars, avars, mvars, evars, kvars, gvars, pvars, dvars, rvars, svars, jvars, hvars, lvars>>
NonGap == <<tvars, avars, mvars, evars, kvars, gvars, pvars, cvars, rvars, svars, jvars, hvars, lvars>>
NonTrip == <<tvars, avars, mvars, evars, kvars, gvars, pvars, cvars, dvars, svars, jvars, hvars, lvars>>
NonTick == <<tvars, avars, mvars, evars, kvars, gvars, pvars, cvars, dvars, rvars, jvars, hvars, lvars>>
NonJourney == <<tvars, avars, mvars, evars, kvars, gvars, pvars, cvars, dvars, rvars, svars, hvars, lvars>>
NonRoads == <<tvars, avars, mvars, evars, kvars, gvars, pvars, cvars, dvars, rvars, svars, jvars, lvars>>
NonResponses == <<tvars, avars, mvars, evars, kvars, gvars, pvars, cvars, dvars, rvars, svars, jvars, hvars>>

\* The record of a step: the branch of PersonAgent.step taken, the oracle's
\* route index and the number of candidates, the resolutions made by
\* _next_plan_step, the road types a comfort rating was asked for, and the
\* leftover time of an arrival.
Ev(branch, route_id, n_routes, resolved, comfort_asked, time_left) ==
    [branch |-> branch, route_id |-> route_id, n_routes |-> n_routes,
     resolved |-> resolved, comfort_asked |-> comfort_asked, time_left |-> time_left]

NoEv == Ev("none", 0, 0, <<>>, <<>>, 0)

\* The state after TransportModel.__init__ and PersonAgent.__init__, with
\* the traveler's ownership flags as given.
AgentStart(has_bike, has_car) ==
    /\ day = 1
    /\ time = Time(4, 0)
    /\ running = TRUE
    /\ crashed = "none"
    /\ owns_bike = has_bike
    /\ owns_car = has_car
    /\ daily_plan = <<>>
    /\ trip = None
    /\ route = None
    /\ location = "home"
    /\ position = get_location_coords("home")
    /\ memory_entry = None
    /\ comfort_memory = <<>>
    /\ journeys = <<>>
    /\ csv_written = 0
    /\ ev = NoEv

\* The travelers of the scenario and what each owns (Person.owns_bike,
\* Person.owns_car).
Persons == {"p1", "p2"}
PersonInfo == [p \in Persons |->
                 [owns_bike |-> (p = "p1"), owns_car |-> (p = "p2")]]

\* TravelMemory.__init__: nothing is remembered.
NewTravelMemory == [route_memory |-> <<>>, comfort_memory |-> <<>>]

NoMemEv == [op |-> "none", person |-> "p1", asked |-> <<>>, trip_time |-> 0]

\* Person.__init__ and PersonAgent.__init__ for every traveler: each gets
\* a travel memory of its own.
MemoryStart ==
    /\ m_memory = [p \in Persons |-> NewTravelMemory]
    /\ m_route = [p \in Persons |-> None]
    /\ m_entry = [p \in Persons |-> None]
    /\ m_chosen = [p \in Persons |-> None]
    /\ m_recorded = [p \in Persons |-> <<>>]
    /\ m_asks = [p \in Persons |-> <<>>]
    /\ m_trips = 0
    /\ m_crashed = "none"
    /\ m_sampled = [p \in Persons |-> <<>>]
    /\ m_ev = NoMemEv

\* A new memory entry on which nothing is recorded yet.
AverageStart(mode) ==
    /\ e_entry = new_route_entry(mode, <<1, 3>>)
    /\ e_recorded = <<>>

\* TravelMemory.__init__: an empty comfort cache, and no call made yet.
CacheStart ==
    /\ k_memory = <<>>
    /\ k_stored = <<>>
    /\ k_got = None

\* Before candidate routes are generated.
CandidatesStart ==
    /\ g_ways = 1
    /\ g_routes = <<>>
    /\ g_left = <<>>
    /\ g_seen = {}

\* Before a day plan is asked for: no response, no plan.
PlanStart ==
    /\ p_lines = <<>>
    /\ p_text = <<>>
    /\ p_plan = <<>>
    /\ p_error = "none"
    /\ p_done = FALSE

NoClockEv == [op |-> "none", old |-> Time(4, 0), step |-> 0, rolled |-> FALSE]

\* TransportModel.__init__: day 1, 04:00.
ClockStart ==
    /\ c_time = Time(4, 0)
    /\ c_day = 1
    /\ c_ev = NoClockEv
    /\ c_done = FALSE

NoGapEv == [op |-> "none", step |-> 0]

\* Before any gap is measured.
GapStart ==
    /\ d_a = Time(4, 0)
    /\ d_b = Time(4, 0)
    /\ d_gap = 0
    /\ d_ev = NoGapEv

\* A traveler without a trip.
TripStart ==
    /\ r_time = Time(4, 0)
    /\ r_trip = None
    /\ r_route = None
    /\ r_status = "none"
    /\ r_left = 0
    /\ r_end = None
    /\ r_trip_time = 0
    /\ r_chosen = <<>>

NoJourneyEv == [op |-> "none", key |-> <<>>, mode |-> "none", path |-> <<>>]

\* An empty journey memory (TravelMemory.__init__).
JourneyStart ==
    /\ j_memory = <<>>
    /\ j_got = [key |-> <<>>, index |-> 0]
    /\ j_calls = 0
    /\ j_ev = NoJourneyEv

\* No network loaded.
RoadsStart ==
    /\ h_graph = <<>>
    /\ h_ev = [op |-> "none"]

\* The prompts of the response cache scenario: two travelers' system
\* prompts and the location prompts of two actions.
SystemPrompts == {"persona_a", "persona_b"}
Contents == {"where_to_work", "where_to_eat"}
PromptPairs == SystemPrompts \X Contents

\* What the model answers to a location prompt: a known location or not.
ModelAnswers == {"work", "nowhere"}

\* create_db_connection on a new database: the cache table is empty.
ResponsesStart ==
    /\ l_cache = <<>>
    /\ l_asks = [pair \in PromptPairs |-> 0]
    /\ l_ops = 0
    /\ l_ev = [op |-> "none"]

\* A model whose travelers have not been loaded.
TickStart ==
    /\ s_time = Time(4, 0)
    /\ s_world = [agents |-> <<>>, memory |-> <<>>, error |-> "none"]
    /\ s_oracle = <<>>
    /\ s_order = <<>>

\* The traversal variables before any route is traversed.
TraverseStart(mode, path, tick, offset) ==
    /\ t_mode = mode
    /\ t_path = path
    /\ t_tick = tick
    /\ t_offset0 = offset
    /\ t_progress = [node |-> path[1], offset |-> offset]
    /\ t_position = None
    /\ t_left = 0
    /\ t_budget = 0
    /\ t_given = 0
    /\ t_consumed = 0
    /\ t_calls = 0
    /\ t_status = "start"

(***************************************************************************)
(* The traversal specification.                                            *)
(***************************************************************************)
\* The offsets _plan_route can give a route: tick - time_to(start) with
\* 0 <= time_to(start) < 2 * tick.
InitOffsets(tick) == (1 - tick)..tick

TraverseInit ==
    /\ \E mode \in Modes, path \in {p \in AllPaths : Len(p) >= 2}, tick \in 1..MaxBudget :
         \E offset \in InitOffsets(tick) : TraverseStart(mode, path, tick, offset)
    /\ AgentStart(FALSE, FALSE)
    /\ MemoryStart
    /\ ResponsesStart
    /\ RoadsStart
    /\ JourneyStart
    /\ TickStart
    /\ TripStart
    /\ GapStart
    /\ ClockStart
    /\ PlanStart
    /\ CandidatesStart
    /\ CacheStart
    /\ AverageStart("drive")

\* One call of traverse_route with the given budget.
TraverseCall(budget) ==
    /\ t_status \in {"start", "moving"}
    /\ t_calls < MaxCalls
    /\ LET r == traverse_route(t_mode, t_path, t_progress, budget)
       IN  /\ t_status' = IF r.error # "none" THEN "failed"
                          ELSE IF r.position = None THEN "arrived" ELSE "moving"
           /\ t_progress' = r.progress
           /\ t_position' = r.position
           /\ t_left' = r.time_left
           /\ t_consumed' = t_consumed + budget - r.time_left
    /\ t_budget' = budget
    /\ t_given' = t_given + budget
    /\ t_calls' = t_calls + 1
    /\ UNCHANGED <<t_mode, t_path, t_tick, t_offset0>>
    /\ UNCHANGED NonTraverse

\* The engine's call: the budget is the tick length.
TraverseTick == TraverseCall(t_tick)

\* A call with any budget, on a route that started at offset 0.
TraverseAny == /\ t_offset0 = 0
               /\ \E budget \in 1..MaxBudget : TraverseCall(budget)

TraverseNext == TraverseTick \/ TraverseAny

SpecTraverse == TraverseInit /\ [][TraverseNext]_vars

(***************************************************************************)
(* The model's step: TransportModel.step with the traveler's               *)
(* PersonAgent.step, one action per branch of the traveler's step.         *)
(***************************************************************************)
\* TransportModel._update_clock and the stop test of TransportModel.step.
\* NDays is the n_days the model was constructed with.
NDays == 1

\* The start of TransportModel.step: at 04:00 of day n_days + 1 the journeys
\* table is written to disk.
write_journeys_to_csv(written, now, today) ==
    IF day_plan_is_due(now) /\ today = NDays + 1 THEN written + 1 ELSE written

ModelStep ==
    /\ running' = ~(day_plan_is_due(time) /\ day = NDays + 1)
    /\ csv_written' = write_journeys_to_csv(csv_written, time, day)
    /\ time' = n_mins_from_now(time, TimeStep)
    /\ day' = IF n_mins_from_now(time, TimeStep).hour < time.hour THEN day + 1 ELSE day

\* An exception leaves the step: the run ends there.
Crash(error, event) ==
    /\ crashed' = error
    /\ ev' = event
    /\ csv_written' = write_journeys_to_csv(csv_written, time, day)
    /\ running' = (running /\ ~(day_plan_is_due(time) /\ day = NDays + 1))
    /\ UNCHANGED <<day, time, daily_plan, trip, route, location, position,
                   memory_entry, comfort_memory, journeys>>

Stepping == running /\ crashed = "none"

\* PersonAgent._clear_travel_info.
\* Mutant: the in-progress memory entry is kept.
clear_travel_info_keep_entry(entry) ==
    [trip |-> None, route |-> None, memory_entry |-> entry]

clear_travel_info(entry) == [trip |-> None, route |-> None, memory_entry |-> None]

\* is_travelling branch: PersonAgent._follow_route.
TickFollow ==
    /\ Stepping
    /\ route # None
    /\ LET r == traverse_route(route.mode, route.path,
                               [node |-> route.path[1], offset |-> route.path_offset],
                               TimeStep)
           new_path == from_node(route.path, r.progress.node)
       IN  IF r.error # "none"
           THEN Crash(r.error, Ev("follow", 0, 0, <<>>, <<>>, 0))
           ELSE \E comfort_answers \in [RoadTypes -> ComfortAnswers] :
             LET c == remember_comfort(route.mode, route.path, new_path, comfort_memory,
                                       memory_entry, comfort_answers)
             IN  IF c.error # "none"
                 THEN Crash(c.error, Ev("follow", 0, 0, <<>>, c.asked, 0))
                 ELSE IF r.position = None
                 THEN \* We have reached our destination
                      \E n \in next_plan_step(daily_plan, trip.destination) :
                        LET cleared == clear_travel_info(c.memory_entry)
                        IN  /\ location' = trip.destination
                            /\ position' = get_location_coords(trip.destination)
                            /\ route' = cleared.route
                            /\ memory_entry' = cleared.memory_entry
                            /\ trip' = IF n.trip = None THEN cleared.trip ELSE n.trip
                            /\ daily_plan' = n.daily_plan
                            /\ comfort_memory' = c.comfort_memory
                            /\ ev' = Ev("arrive", 0, 0, n.resolved, c.asked, r.time_left)
                            /\ crashed' = crashed
                            /\ ModelStep
                 ELSE /\ route' = [mode |-> route.mode, path |-> new_path,
                                   path_offset |-> r.progress.offset]
                      /\ position' = r.position
                      /\ memory_entry' = c.memory_entry
                      /\ comfort_memory' = c.comfort_memory
                      /\ ev' = Ev("follow", 0, 0, <<>>, c.asked, 0)
                      /\ UNCHANGED <<crashed, daily_plan, trip, location>>
                      /\ ModelStep
    /\ UNCHANGED <<owns_bike, owns_car, journeys>>
    /\ UNCHANGED NonAgent

\* Pending trip, due: PersonAgent._plan_route.
TickPlanRoute ==
    /\ Stepping
    /\ route = None
    /\ trip # None
    /\ route_is_due(time, trip)
    /\ LET routes == get_candidate_routes(trip.origin, trip.destination,
                                          owns_bike, owns_car)
       IN  \E route_id \in RouteIds(Len(routes)) :
             LET chosen == choose_a_route(trip.origin, trip.destination,
                                          owns_bike, owns_car, route_id)
                 event == Ev("plan_route", route_id, Len(routes), <<>>, <<>>, 0)
             IN  IF chosen.error # "none"
                 THEN Crash(chosen.error, event)
                 ELSE /\ route' = [chosen.route EXCEPT
                                     !.path_offset = initial_offset(time, trip)]
                      /\ position' = get_node_coords(chosen.route.path[1])
                      /\ memory_entry' = init_route_entry(chosen.route.mode,
                                                          chosen.route.path)
                      /\ ev' = event
                      /\ UNCHANGED <<crashed, daily_plan, trip, location, comfort_memory>>
                      /\ ModelStep
    /\ UNCHANGED <<owns_bike, owns_car, journeys>>
    /\ UNCHANGED NonAgent

\* Pending trip, not yet due: the traveler waits.
TickWait ==
    /\ Stepping
    /\ route = None
    /\ trip # None
    /\ ~route_is_due(time, trip)
    /\ ev' = Ev("wait", 0, 0, <<>>, <<>>, 0)
    /\ ModelStep
    /\ UNCHANGED <<journeys, crashed, owns_bike, owns_car, daily_plan, trip, route, location,
                   position, memory_entry, comfort_memory>>
    /\ UNCHANGED NonAgent

\* No trip, day start: Person.plan_day and PersonAgent._next_plan_step.
TickPlanDay ==
    /\ Stepping
    /\ route = None
    /\ trip = None
    /\ day_plan_is_due(time)
    /\ \E response \in PlanResponses :
         LET plan == break_down_plan(response)
         IN  \E n \in next_plan_step(plan, location) :
               /\ daily_plan' = n.daily_plan
               /\ trip' = n.trip
               /\ ev' = Ev("plan_day", 0, 0, n.resolved, <<>>, 0)
    /\ ModelStep
    /\ UNCHANGED <<journeys, crashed, owns_bike, owns_car, route, location, position,
                   memory_entry, comfort_memory>>
    /\ UNCHANGED NonAgent

\* No trip, not the day start: nothing happens.
TickIdle ==
    /\ Stepping
    /\ route = None
    /\ trip = None
    /\ ~day_plan_is_due(time)
    /\ ev' = Ev("idle", 0, 0, <<>>, <<>>, 0)
    /\ ModelStep
    /\ UNCHANGED <<journeys, crashed, owns_bike, owns_car, daily_plan, trip, route, location,
                   position, memory_entry, comfort_memory>>
    /\ UNCHANGED NonAgent

Init ==
    /\ \E has_bike \in BOOLEAN, has_car \in BOOLEAN : AgentStart(has_bike, has_car)
    /\ TraverseStart("walk", <<1, 2>>, TimeStep, 0)
    /\ MemoryStart
    /\ ResponsesStart
    /\ RoadsStart
    /\ JourneyStart
    /\ TickStart
    /\ TripStart
    /\ GapStart
    /\ ClockStart
    /\ PlanStart
    /\ CandidatesStart
    /\ CacheStart
    /\ AverageStart("drive")

Next == TickFollow \/ TickPlanRoute \/ TickWait \/ TickPlanDay \/ TickIdle

Spec == Init /\ [][Next]_vars

\* run_model: the model is stepped for as long as it is running.
SpecLive == Init /\ [][Next]_vars /\ WF_vars(Next)

(***************************************************************************)
(* The travel memory specification: the operations of every traveler on    *)
(* its travel memory while it plans and follows routes from home to work.  *)
(* Where a traversal ends and how long a trip took are inputs.             *)
(***************************************************************************)
\* The number of routes planned in a run.
MaxTrips == 2

\* The trip times _calculate_trip_time may give, in minutes.
TripTimes == {10, 20}

MemRunning == m_crashed = "none"

\* The candidate routes of traveler p from home to work.
CandidatesOf(p) ==
    get_candidate_routes("home", "work", PersonInfo[p].owns_bike, PersonInfo[p].owns_car)

\* The asks counted: one more for every road type asked about.
CountAsks(asks, roads, mode) ==
    LET Asked(k) == {i \in 1..Len(roads) : k = <<roads[i], mode>>}
        keys == DOMAIN asks \cup {<<roads[i], mode>> : i \in 1..Len(roads)}
    IN  [k \in keys |-> (IF k \in DOMAIN asks THEN asks[k] ELSE 0)
                        + Cardinality(Asked(k))]

MemEv(op, p, asked, trip_time) ==
    [op |-> op, person |-> p, asked |-> asked, trip_time |-> trip_time]

\* An exception leaves the step: the run ends there.
MemCrash(error, event) ==
    /\ m_crashed' = error
    /\ m_ev' = event
    /\ m_asks' = [m_asks EXCEPT ![event.person] =
                    CountAsks(@, event.asked, m_route[event.person].mode)]
    /\ UNCHANGED <<m_memory, m_route, m_entry, m_chosen, m_recorded, m_trips,
                   m_sampled>>

\* PersonAgent._plan_route of traveler p: a candidate route becomes the
\* route, and its memory entry the entry in use.
MemPlanRoute(p) ==
    /\ MemRunning
    /\ m_route[p] = None
    /\ m_trips < MaxTrips
    /\ \E k \in 1..Len(CandidatesOf(p)) :
         LET chosen == CandidatesOf(p)[k]
             got == init_or_get(m_memory[p].route_memory, chosen.mode, chosen.path)
         IN  /\ m_route' = [m_route EXCEPT ![p] = [mode |-> chosen.mode,
                                                   path |-> chosen.path]]
             /\ m_chosen' = [m_chosen EXCEPT ![p] = [mode |-> chosen.mode,
                                                     path |-> chosen.path]]
             /\ m_memory' = [m_memory EXCEPT ![p].route_memory = got.route_memory]
             /\ m_entry' = [m_entry EXCEPT ![p] = got.index]
             /\ m_recorded' = [m_recorded EXCEPT ![p] =
                                 IF got.index > Len(@) THEN Append(@, <<>>) ELSE @]
    /\ m_trips' = m_trips + 1
    /\ m_ev' = MemEv("plan_route", p, <<>>, 0)
    /\ UNCHANGED <<m_asks, m_crashed, m_sampled>>
    /\ UNCHANGED NonMemory

\* PersonAgent._follow_route of traveler p when the traversal ends partway,
\* on the edge that starts at a node of the remaining path.
MemAdvance(p) ==
    /\ MemRunning
    /\ m_route[p] # None
    /\ \E k \in 1..(Len(m_route[p].path) - 1), answers \in [RoadTypes -> ComfortAnswers] :
         LET new_path == from_node(m_route[p].path, m_route[p].path[k])
             c == remember_comfort(m_route[p].mode, m_route[p].path, new_path,
                                   m_memory[p].comfort_memory,
                                   m_memory[p].route_memory[m_entry[p]], answers)
         IN  IF c.error # "none"
             THEN MemCrash(c.error, MemEv("follow", p, c.asked, 0))
             ELSE /\ m_route' = [m_route EXCEPT ![p].path = new_path]
                  /\ m_memory' = [m_memory EXCEPT
                                    ![p].comfort_memory = c.comfort_memory,
                                    ![p].route_memory[m_entry[p]] = c.memory_entry]
                  /\ m_asks' = [m_asks EXCEPT ![p] = CountAsks(@, c.asked, m_route[p].mode)]
                  /\ m_ev' = MemEv("follow", p, c.asked, 0)
                  /\ UNCHANGED <<m_entry, m_chosen, m_recorded, m_trips, m_crashed,
                                 m_sampled>>
    /\ UNCHANGED NonMemory

\* PersonAgent._follow_route of traveler p when the traversal reports
\* arrival: the rest of the path is sampled, the trip is folded into the
\* memory entry and the travel information is cleared.
MemArrive(p) ==
    /\ MemRunning
    /\ m_route[p] # None
    /\ \E trip_time \in TripTimes, answers \in [RoadTypes -> ComfortAnswers] :
         LET path == m_route[p].path
             new_path == from_node(path, path[Len(path)])
             c == remember_comfort(m_route[p].mode, path, new_path,
                                   m_memory[p].comfort_memory,
                                   m_memory[p].route_memory[m_entry[p]], answers)
         IN  IF c.error # "none"
             THEN MemCrash(c.error, MemEv("arrive", p, c.asked, 0))
             ELSE /\ m_memory' = [m_memory EXCEPT
                                    ![p].comfort_memory = c.comfort_memory,
                                    ![p].route_memory[m_entry[p]] =
                                        complete_memory(c.memory_entry, trip_time)]
                  /\ m_route' = [m_route EXCEPT ![p] = None]
                  /\ m_entry' = [m_entry EXCEPT ![p] = None]
                  /\ m_recorded' = [m_recorded EXCEPT ![p][m_entry[p]] =
                                      Append(@, trip_time)]
                  /\ m_asks' = [m_asks EXCEPT ![p] = CountAsks(@, c.asked, m_route[p].mode)]
                  /\ m_sampled' = [m_sampled EXCEPT ![p] = c.memory_entry.edge_lengths]
                  /\ m_ev' = MemEv("arrive", p, c.asked, trip_time)
                  /\ UNCHANGED <<m_chosen, m_trips, m_crashed>>
    /\ UNCHANGED NonMemory

MemoryInit ==
    /\ MemoryStart
    /\ ResponsesStart
    /\ RoadsStart
    /\ JourneyStart
    /\ TickStart
    /\ TripStart
    /\ GapStart
    /\ ClockStart
    /\ PlanStart
    /\ CandidatesStart
    /\ CacheStart
    /\ AverageStart("drive")
    /\ AgentStart(FALSE, FALSE)
    /\ TraverseStart("walk", <<1, 2>>, TimeStep, 0)

MemoryNext == \E p \in Persons : MemPlanRoute(p) \/ MemAdvance(p) \/ MemArrive(p)

SpecMemory == MemoryInit /\ [][MemoryNext]_vars

(***************************************************************************)
(* The running average specification: update calls on one memory entry.    *)
(***************************************************************************)
\* The number of completions recorded on the entry.
MaxRecorded == 4

\* The trip times and trip comfort values recorded, in minutes and points.
RecordedTimes == {7, 10, 20}
RecordedComforts == {4, 7}

\* MemoryEntry.update on a passive entry, ActiveMemoryEntry.active_update
\* on an active one.
AverageUpdate ==
    /\ Len(e_recorded) < MaxRecorded
    /\ \E new_time \in RecordedTimes, new_comfort \in RecordedComforts :
         /\ e_entry' = IF e_entry.comfort = None
                       THEN update(e_entry, Rat(new_time, 1))
                       ELSE active_update(e_entry, Rat(new_time, 1), Rat(new_comfort, 1))
         /\ e_recorded' = Append(e_recorded, new_time)
    /\ UNCHANGED NonAverage

AverageInit ==
    /\ \E mode \in Modes : AverageStart(mode)
    /\ MemoryStart
    /\ ResponsesStart
    /\ RoadsStart
    /\ JourneyStart
    /\ TickStart
    /\ TripStart
    /\ GapStart
    /\ ClockStart
    /\ PlanStart
    /\ CandidatesStart
    /\ CacheStart
    /\ AgentStart(FALSE, FALSE)
    /\ TraverseStart("walk", <<1, 2>>, TimeStep, 0)

SpecAverage == AverageInit /\ [][AverageUpdate]_vars

(***************************************************************************)
(* The comfort cache specification: store_comfort and get_comfort calls on *)
(* one TravelMemory, each with a RoadType object of its own.               *)
(***************************************************************************)
\* The comfort values stored and the modes they are stored for.
ComfortValues == {3, 7}
ActiveModes == {"walk", "bike"}

\* TravelMemory.store_comfort(road, mode, comfort).
CacheStore ==
    /\ \E road \in RoadObjects, mode \in ActiveModes, comfort \in ComfortValues :
         /\ k_memory' = store_comfort(k_memory, road_key(road), mode, comfort)
         /\ k_stored' = [k \in DOMAIN k_stored \cup {<<road.highway, road.maxspeed, mode>>} |->
                           IF k = <<road.highway, road.maxspeed, mode>>
                           THEN [value |-> comfort, id |-> road.id]
                           ELSE k_stored[k]]
    /\ UNCHANGED k_got
    /\ UNCHANGED NonCache

\* TravelMemory.get_comfort(road, mode).
CacheGet ==
    /\ \E road \in RoadObjects, mode \in ActiveModes :
         k_got' = [road |-> road, mode |-> mode,
                   result |-> get_comfort(k_memory, road_key(road), mode)]
    /\ UNCHANGED <<k_memory, k_stored>>
    /\ UNCHANGED NonCache

CacheInit ==
    /\ CacheStart
    /\ MemoryStart
    /\ ResponsesStart
    /\ RoadsStart
    /\ JourneyStart
    /\ TickStart
    /\ TripStart
    /\ GapStart
    /\ ClockStart
    /\ PlanStart
    /\ CandidatesStart
    /\ AverageStart("drive")
    /\ AgentStart(FALSE, FALSE)
    /\ TraverseStart("walk", <<1, 2>>, TimeStep, 0)

CacheNext == CacheStore \/ CacheGet

SpecCache == CacheInit /\ [][CacheNext]_vars

(***************************************************************************)
(* The candidate generation specification: _get_candidate_routes on graphs *)
(* with more and more simple paths between origin and destination.         *)
(***************************************************************************)
\* The largest number of simple paths between origin and destination.
MaxWays == 6

\* What nx.shortest_simple_paths yields on a graph whose origin (node 1) and
\* destination (node 2) are joined by `ways` two-edge ways through the nodes
\* 3, 4, ..., the lower the node the shorter the way: every simple path,
\* cheapest first.
ranked_paths(ways) == [i \in 1..ways |-> <<1, i + 2, 2>>]

\* [Route(mode, path) for path in paths] on the iterator plan_paths gave:
\* the comprehension draws until the iterator raises StopIteration.
\* `left` is the number of paths the iterator still holds afterwards.
RECURSIVE DrawRoutes(_, _, _, _)
DrawRoutes(mode, paths, i, routes) ==
    IF i > Len(paths)
    THEN [routes |-> routes, left |-> 0]
    ELSE DrawRoutes(mode, paths, i + 1,
                    Append(routes, [mode |-> mode, path |-> paths[i], path_offset |-> 0]))

\* PersonAgent._mode_possible_routes on the graph with `ways` simple paths.
mode_routes_on(ways, mode) == DrawRoutes(mode, ranked_paths(ways), 1, <<>>)

\* PersonAgent._get_candidate_routes on the graph with `ways` simple paths.
candidate_routes_on(ways, has_bike, has_car) ==
    [routes |-> mode_routes_on(ways, "walk").routes
                  \o (IF has_bike THEN mode_routes_on(ways, "bike").routes ELSE <<>>)
                  \o (IF has_car THEN mode_routes_on(ways, "drive").routes ELSE <<>>),
     left |-> [mode \in {"walk"} \cup (IF has_bike THEN {"bike"} ELSE {})
                                  \cup (IF has_car THEN {"drive"} ELSE {}) |->
                 mode_routes_on(ways, mode).left]]

\* One call of _get_candidate_routes, on any graph and for any traveler.
CandidatesCall ==
    /\ \E ways \in 1..MaxWays, has_bike \in BOOLEAN, has_car \in BOOLEAN :
         LET c == candidate_routes_on(ways, has_bike, has_car)
         IN  /\ g_ways' = ways
             /\ g_routes' = c.routes
             /\ g_left' = c.left
             /\ g_seen' = g_seen \cup {ways}
    /\ UNCHANGED NonCandidates

CandidatesInit ==
    /\ CandidatesStart
    /\ MemoryStart
    /\ ResponsesStart
    /\ RoadsStart
    /\ JourneyStart
    /\ TickStart
    /\ TripStart
    /\ GapStart
    /\ ClockStart
    /\ PlanStart
    /\ CacheStart
    /\ AverageStart("drive")
    /\ AgentStart(FALSE, FALSE)
    /\ TraverseStart("walk", <<1, 2>>, TimeStep, 0)

SpecCandidates == CandidatesInit /\ [][CandidatesCall]_vars

(***************************************************************************)
(* The plan parsing specification: Person._break_down_plan on the text of  *)
(* a day-plan response.  A text is a sequence of characters.               *)
(***************************************************************************)
Digits == <<"0", "1", "2", "3", "4", "5", "6", "7", "8", "9">>

\* The characters str.strip, str.split and the pattern's \s take as space.
Whitespace == {" ", "\t"}

IsDigit(c) == \E i \in 1..10 : Digits[i] = c
DigitValue(c) == (CHOOSE i \in 1..10 : Digits[i] = c) - 1

\* The characters the pattern's \b takes as word characters.
IsWord(c) == IsDigit(c) \/ c \in {"a", "b"}

\* int(text): the decimal value; ValueError (-1) when text is empty or has
\* a character that is not a digit.
RECURSIVE DecimalFrom(_, _, _)
DecimalFrom(text, i, value) ==
    IF i > Len(text) THEN value
    ELSE DecimalFrom(text, i + 1, (10 * value) + DigitValue(text[i]))

int(text) ==
    IF text # <<>> /\ \A i \in 1..Len(text) : IsDigit(text[i])
    THEN DecimalFrom(text, 1, 0)
    ELSE -1

\* str.strip(): without the leading and trailing whitespace.
RECURSIVE lstrip(_)
lstrip(line) ==
    IF line # <<>> /\ line[1] \in Whitespace THEN lstrip(Tail(line)) ELSE line

RECURSIVE rstrip(_)
rstrip(line) ==
    IF line # <<>> /\ line[Len(line)] \in Whitespace
    THEN rstrip(SubSeq(line, 1, Len(line) - 1))
    ELSE line

strip(line) == rstrip(lstrip(line))

\* text.split(sep): the pieces of text between the occurrences of sep.
RECURSIVE SplitFrom(_, _, _, _, _)
SplitFrom(text, sep, i, piece, pieces) ==
    IF i > Len(text) THEN Append(pieces, piece)
    ELSE IF text[i] = sep
         THEN SplitFrom(text, sep, i + 1, <<>>, Append(pieces, piece))
         ELSE SplitFrom(text, sep, i + 1, Append(piece, text[i]), pieces)

split(text, sep) == SplitFrom(text, sep, 1, <<>>, <<>>)

\* line.split(): the maximal runs of characters that are not whitespace.
RECURSIVE WordsFrom(_, _, _, _)
WordsFrom(line, i, word, words) ==
    IF i > Len(line) THEN IF word = <<>> THEN words ELSE Append(words, word)
    ELSE IF line[i] \in Whitespace
         THEN WordsFrom(line, i + 1, <<>>,
                        IF word = <<>> THEN words ELSE Append(words, word))
         ELSE WordsFrom(line, i + 1, Append(word, line[i]), words)

split_words(line) == WordsFrom(line, 1, <<>>, <<>>)

\* line.removeprefix(prefix).
removeprefix(line, prefix) ==
    IF Len(prefix) <= Len(line) /\ SubSeq(line, 1, Len(prefix)) = prefix
    THEN SubSeq(line, Len(prefix) + 1, Len(line))
    ELSE line

\* The hour part of the pattern, ([01]?[0-9]|2[0-3]), matching the first h
\* characters of the line.
\* Mutant: the hour is any one or two digits.
hour_matches_any(line, h) ==
    /\ h \in {1, 2}
    /\ Len(line) >= h
    /\ \A i \in 1..h : IsDigit(line[i])

hour_matches(line, h) ==
    /\ Len(line) >= h
    /\ \/ h = 1 /\ IsDigit(line[1])
       \/ h = 2 /\ line[1] \in {"0", "1"} /\ IsDigit(line[2])
       \/ h = 2 /\ line[1] = "2" /\ line[2] \in {"0", "1", "2", "3"}

\* re.match(r"^([01]?[0-9]|2[0-3]):([0-5][0-9])\b\s+.*", line).
matches_pattern(line) ==
    \E h \in {1, 2} :
      /\ hour_matches(line, h)
      /\ Len(line) >= h + 4
      /\ line[h + 1] = ":"
      /\ line[h + 2] \in {"0", "1", "2", "3", "4", "5"}
      /\ IsDigit(line[h + 3])
      /\ ~IsWord(line[h + 4])             \* \b
      /\ line[h + 4] \in Whitespace       \* \s+

\* The loop body of _break_down_plan for one matching line: the entry, or
\* the exception it raises.
plan_entry(line) ==
    LET words  == split_words(line)
        time_  == IF words = <<>> THEN <<>> ELSE words[1]
        pieces == split(time_, ":")
        hour   == int(pieces[1])
        minute == IF Len(pieces) >= 2 THEN int(pieces[2]) ELSE -1
    IN  IF words = <<>> \/ Len(pieces) < 2 THEN [error |-> "IndexError"]
        ELSE IF hour < 0 \/ minute < 0 THEN [error |-> "ValueError"]
        ELSE [error |-> "none",
              entry |-> [time |-> Time(hour, minute),
                         action |-> strip(removeprefix(line, time_))]]

\* Person._break_down_plan on the text of a response: the plan it stores,
\* or the exception it raises.
break_down_plan_text(plan) ==
    LET split_lines == split(plan, "\n")
        lines   == [i \in 1..Len(split_lines) |-> strip(split_lines[i])]
        matched == SelectSeq(lines, matches_pattern)
        entries == [i \in 1..Len(matched) |-> plan_entry(matched[i])]
    IN  IF \E i \in 1..Len(entries) : entries[i].error # "none"
        THEN [error |-> entries[CHOOSE i \in 1..Len(entries) :
                                   /\ entries[i].error # "none"
                                   /\ \A j \in 1..(i - 1) : entries[j].error = "none"].error,
              plan |-> <<>>]
        ELSE [error |-> "none",
              plan |-> [i \in 1..Len(entries) |-> entries[i].entry]]

\* The most lines of a response whose lines are drawn freely.
MaxLines == 3

\* The parts a line of a response is made of: leading whitespace, an hour,
\* a separator, a minute, a gap, an action and trailing whitespace.
LineParts ==
    [lead   : {<<>>, <<" ">>},
     hour   : {<<>>, <<"0">>, <<"9">>, <<"0", "8">>, <<"1", "9">>, <<"2", "3">>,
               <<"2", "4">>, <<"3", "0">>, <<"0", "0", "8">>},
     sep    : {<<>>, <<":">>},
     minute : {<<"0", "0">>, <<"5", "9">>, <<"6", "0">>, <<"5">>, <<"3", "0", "5">>},
     gap    : {<<>>, <<" ">>, <<"\t", " ">>},
     action : {<<>>, <<"a">>, <<"a", " ", "b">>},
     trail  : {<<>>, <<" ">>}]

Parts(lead, hour, sep, minute, gap, action, trail) ==
    [lead |-> lead, hour |-> hour, sep |-> sep, minute |-> minute, gap |-> gap,
     action |-> action, trail |-> trail]

\* The lines that responses of several lines are made of.
SampleLines ==
    { Parts(<<>>, <<"9">>, <<":">>, <<"0", "0">>, <<" ">>, <<"a">>, <<>>),
      Parts(<<" ">>, <<"2", "3">>, <<":">>, <<"5", "9">>, <<"\t", " ">>, <<"a", " ", "b">>, <<" ">>),
      Parts(<<>>, <<"2", "4">>, <<":">>, <<"0", "0">>, <<" ">>, <<"a">>, <<>>),
      Parts(<<>>, <<>>, <<>>, <<"5">>, <<>>, <<"a">>, <<>>),
      Parts(<<>>, <<"0", "8">>, <<":">>, <<"0", "0">>, <<>>, <<>>, <<>>) }

\* The text of a line, and of a response: its lines joined by newlines.
LineText(l) == l.lead \o l.hour \o l.sep \o l.minute \o l.gap \o l.action \o l.trail

RECURSIVE JoinLines(_, _)
JoinLines(lines, i) ==
    IF i > Len(lines) THEN <<>>
    ELSE IF i = Len(lines) THEN LineText(lines[i])
    ELSE LineText(lines[i]) \o <<"\n">> \o JoinLines(lines, i + 1)

\* The responses: every single line, and every text of up to MaxLines of
\* the sample lines.
PlanTexts ==
    {<<l>> : l \in LineParts}
      \cup UNION {[1..n -> SampleLines] : n \in 0..MaxLines}

\* The plans the traveler may hold before the response is parsed.
PreviousPlans == {<<>>, <<[time |-> Time(7, 30), action |-> <<"b">>]>>}

\* Person.plan_day after the oracle returned its text: _break_down_plan.
PlanParse ==
    /\ ~p_done
    /\ LET r == break_down_plan_text(p_text)
       IN  /\ p_error' = r.error
           /\ p_plan' = IF r.error = "none" THEN r.plan ELSE p_plan
    /\ p_done' = TRUE
    /\ UNCHANGED <<p_lines, p_text>>
    /\ UNCHANGED NonPlan

PlanInit ==
    /\ \E lines \in PlanTexts, previous \in PreviousPlans :
         /\ p_lines = lines
         /\ p_text = JoinLines(lines, 1)
         /\ p_plan = previous
         /\ p_error = "none"
         /\ p_done = FALSE
    /\ CandidatesStart
    /\ MemoryStart
    /\ ResponsesStart
    /\ RoadsStart
    /\ JourneyStart
    /\ TickStart
    /\ TripStart
    /\ GapStart
    /\ ClockStart
    /\ CacheStart
    /\ AverageStart("drive")
    /\ AgentStart(FALSE, FALSE)
    /\ TraverseStart("walk", <<1, 2>>, TimeStep, 0)

SpecPlan == PlanInit /\ [][PlanParse]_vars

(***************************************************************************)
(* The clock specification: one advance of a clock that shows any time of  *)
(* the day, by any step below an hour.                                     *)
(***************************************************************************)
\* The times of the day: hour 0-23, minute 0-59.
CanonicalTimes == {Time(h, m) : h \in 0..23, m \in 0..59}

\* The steps a clock is advanced by.
Steps == 0..59

\* utils.model_time.Time._increment.
increment(t, extra_mins) ==
    LET new_minute == t.minute + extra_mins
    IN  IF new_minute >= 60
        THEN Time(IF t.hour + 1 = 24 THEN 0 ELSE t.hour + 1, new_minute - 60)
        ELSE Time(t.hour, new_minute)

\* utils.model_time.Time.perform_time_step: the time is advanced in place,
\* the result tells whether a new day began.
ClockPerformTimeStep ==
    /\ ~c_done
    /\ \E step \in Steps :
         /\ c_time' = increment(c_time, step)
         /\ c_ev' = [op |-> "perform_time_step", old |-> c_time, step |-> step,
                     rolled |-> increment(c_time, step).hour < c_time.hour]
    /\ c_done' = TRUE
    /\ UNCHANGED c_day
    /\ UNCHANGED NonClock

\* TransportModel._update_clock with the model's time_step.
ClockUpdate ==
    /\ ~c_done
    /\ \E time_step \in Steps :
         LET new_time == n_mins_from_now(c_time, time_step)
         IN  /\ c_day' = IF new_time.hour < c_time.hour THEN c_day + 1 ELSE c_day
             /\ c_time' = new_time
             /\ c_ev' = [op |-> "update_clock", old |-> c_time, step |-> time_step,
                         rolled |-> new_time.hour < c_time.hour]
    /\ c_done' = TRUE
    /\ UNCHANGED NonClock

ClockInit ==
    /\ c_time \in CanonicalTimes
    /\ c_day = 1
    /\ c_ev = NoClockEv
    /\ c_done = FALSE
    /\ GapStart
    /\ TripStart
    /\ TickStart
    /\ PlanStart
    /\ CandidatesStart
    /\ MemoryStart
    /\ ResponsesStart
    /\ RoadsStart
    /\ JourneyStart
    /\ CacheStart
    /\ AverageStart("drive")
    /\ AgentStart(FALSE, FALSE)
    /\ TraverseStart("walk", <<1, 2>>, TimeStep, 0)

ClockNext == ClockPerformTimeStep \/ ClockUpdate

SpecClock == ClockInit /\ [][ClockNext]_vars

(***************************************************************************)
(* The gap specification: Time.time_to between two times of the day, and   *)
(* from a time advanced by n_mins_from_now back to the time advanced.      *)
(***************************************************************************)
\* The times gaps are measured to: every hour, some minutes.
GapTimes == {Time(h, m) : h \in 0..23, m \in {0, 30, 59}}

\* a.time_to(b).
GapTimeTo ==
    /\ d_ev.op = "none"
    /\ \E b \in GapTimes :
         /\ d_b' = b
         /\ d_gap' = time_to(d_a, b)
    /\ d_ev' = [op |-> "time_to", step |-> 0]
    /\ UNCHANGED d_a
    /\ UNCHANGED NonGap

\* t.n_mins_from_now(n).time_to(t).
GapRoundTrip ==
    /\ d_ev.op = "none"
    /\ \E n \in Steps :
         LET later == n_mins_from_now(d_a, n)
         IN  /\ d_a' = later
             /\ d_b' = d_a
             /\ d_gap' = time_to(later, d_a)
             /\ d_ev' = [op |-> "round_trip", step |-> n]
    /\ UNCHANGED NonGap

GapInit ==
    /\ d_a \in CanonicalTimes
    /\ d_b = d_a
    /\ d_gap = 0
    /\ d_ev = NoGapEv
    /\ ClockStart
    /\ TripStart
    /\ TickStart
    /\ PlanStart
    /\ CandidatesStart
    /\ MemoryStart
    /\ ResponsesStart
    /\ RoadsStart
    /\ JourneyStart
    /\ CacheStart
    /\ AverageStart("drive")
    /\ AgentStart(FALSE, FALSE)
    /\ TraverseStart("walk", <<1, 2>>, TimeStep, 0)

GapNext == GapTimeTo \/ GapRoundTrip

SpecGap == GapInit /\ [][GapNext]_vars

(***************************************************************************)
(* The trip specification: one trip of a traveler from the tick its route  *)
(* is planned (PersonAgent.step with a pending trip that is due) to its    *)
(* arrival, between any two nodes of the scenario graph.                   *)
(***************************************************************************)
\* The times of the model's ticks in the hours looked at: the clock starts
\* at 04:00 and advances by the tick length.
TickTimes == {Time(h, m) : h \in {4, 22, 23}, m \in {k \in 0..59 : k % TimeStep = 0}}

\* The trips pending at `now` whose route PersonAgent.step plans at `now`.
DueTrips(now) ==
    {[origin |-> "home", destination |-> "work", start_time |-> n_mins_from_now(now, ahead)] :
       ahead \in {a \in 0..59 : a < 2 * TimeStep}}

\* PersonAgent._plan_route with the route the oracle chose.
TripPlanRoute ==
    /\ r_status = "pending"
    /\ \E mode \in Modes, path \in {p \in AllPaths : Len(p) >= 2} :
         /\ r_route' = [mode |-> mode, path |-> path,
                        path_offset |-> initial_offset(r_time, r_trip)]
         /\ r_chosen' = path
    /\ r_status' = "travelling"
    /\ r_time' = n_mins_from_now(r_time, TimeStep)
    /\ UNCHANGED <<r_trip, r_left, r_end, r_trip_time>>
    /\ UNCHANGED NonTrip

\* PersonAgent._follow_route: a tick of the route, arrival included.
TripFollow ==
    /\ r_status = "travelling"
    /\ LET r == traverse_route(r_route.mode, r_route.path,
                               [node |-> r_route.path[1], offset |-> r_route.path_offset],
                               TimeStep)
       IN  IF r.error # "none"
           THEN /\ r_status' = "failed"
                /\ UNCHANGED <<r_time, r_route, r_left, r_end, r_trip_time>>
           ELSE IF r.position = None
           THEN /\ r_status' = "arrived"
                /\ r_left' = r.time_left
                /\ r_end' = trip_end_time(r_time, r.time_left)
                /\ r_trip_time' = calculate_trip_time(r_time, r_trip, r.time_left)
                /\ r_time' = n_mins_from_now(r_time, TimeStep)
                /\ UNCHANGED r_route
           ELSE /\ r_route' = [mode |-> r_route.mode,
                               path |-> from_node(r_route.path, r.progress.node),
                               path_offset |-> r.progress.offset]
                /\ r_time' = n_mins_from_now(r_time, TimeStep)
                /\ UNCHANGED <<r_status, r_left, r_end, r_trip_time>>
    /\ UNCHANGED <<r_trip, r_chosen>>
    /\ UNCHANGED NonTrip

TripInit ==
    /\ \E now \in TickTimes : \E a_trip \in DueTrips(now) :
         /\ r_time = now
         /\ r_trip = a_trip
    /\ r_route = None
    /\ r_status = "pending"
    /\ r_left = 0
    /\ r_end = None
    /\ r_trip_time = 0
    /\ r_chosen = <<>>
    /\ GapStart
    /\ ClockStart
    /\ TickStart
    /\ PlanStart
    /\ CandidatesStart
    /\ MemoryStart
    /\ ResponsesStart
    /\ RoadsStart
    /\ JourneyStart
    /\ CacheStart
    /\ AverageStart("drive")
    /\ AgentStart(FALSE, FALSE)
    /\ TraverseStart("walk", <<1, 2>>, TimeStep, 0)

TripNext == TripPlanRoute \/ TripFollow

SpecTrip == TripInit /\ [][TripNext]_vars

\* The trip specification with the ticks that the model keeps taking.
SpecTripLive == TripInit /\ [][TripNext]_vars /\ WF_vars(TripNext)

(***************************************************************************)
(* The near-trip specification: a trip is planned and followed in a        *)
(* scenario with a further location, the depot, whose nearest node is the  *)
(* nearest node of work.                                                   *)
(***************************************************************************)
\* The trips pending at `now` that PersonAgent.step plans at `now`, from
\* home or from the depot to work.
NearTrips(now) ==
    {[origin |-> origin, destination |-> "work", start_time |-> n_mins_from_now(now, ahead)] :
       origin \in {"home", "depot"}, ahead \in {a \in 0..59 : a < 2 * TimeStep}}

\* Origin and destination resolve to the same nearest node.
SameNearestNode(a_trip) ==
    get_nearest_node(get_location_coords(a_trip.origin))
      = get_nearest_node(get_location_coords(a_trip.destination))

\* PersonAgent._plan_route: the oracle picks one of the candidate routes.
NearPlanRoute ==
    /\ r_status = "pending"
    /\ \E has_bike \in BOOLEAN, has_car \in BOOLEAN :
         LET routes == get_candidate_routes(r_trip.origin, r_trip.destination,
                                            has_bike, has_car)
         IN  \E route_id \in 0..(Len(routes) - 1) :
               /\ r_route' = [list_index(routes, route_id).route EXCEPT
                                !.path_offset = initial_offset(r_time, r_trip)]
               /\ r_chosen' = list_index(routes, route_id).route.path
    /\ r_status' = "travelling"
    /\ r_time' = n_mins_from_now(r_time, TimeStep)
    /\ UNCHANGED <<r_trip, r_left, r_end, r_trip_time>>
    /\ UNCHANGED NonTrip

NearInit ==
    /\ \E now \in TickTimes : \E a_trip \in NearTrips(now) :
         /\ r_time = now
         /\ r_trip = a_trip
    /\ r_route = None
    /\ r_status = "pending"
    /\ r_left = 0
    /\ r_end = None
    /\ r_trip_time = 0
    /\ r_chosen = <<>>
    /\ GapStart
    /\ ClockStart
    /\ PlanStart
    /\ CandidatesStart
    /\ MemoryStart
    /\ ResponsesStart
    /\ RoadsStart
    /\ JourneyStart
    /\ CacheStart
    /\ AverageStart("drive")
    /\ AgentStart(FALSE, FALSE)
    /\ TraverseStart("walk", <<1, 2>>, TimeStep, 0)
    /\ TickStart

NearNext == NearPlanRoute \/ TripFollow

SpecNear == NearInit /\ [][NearNext]_vars

(***************************************************************************)
(* The tick specification: TransportModel.step with two travelers, each    *)
(* with a pending trip from home to work, stepped in a shuffled order.     *)
(* The oracle is deterministic: its answer is a function of the prompt,    *)
(* which names the traveler.                                               *)
(***************************************************************************)
\* The orders shuffle_do may step the travelers in.
Orders == {<<"p1", "p2">>, <<"p2", "p1">>}

\* The comfort answers of a deterministic oracle.
TickComfortAnswers == ComfortAnswers \cup {[parses |-> TRUE, value |-> 3]}

\* The oracles: for each traveler the index it answers a route choice with
\* and its comfort answer for each road type.
Oracles ==
    [route_id : [Persons -> RouteIds(4)],
     comfort  : [Persons -> [RoadTypes -> TickComfortAnswers]]]

\* Every traveler uses the one travel memory.
memory_of_shared(p) == "p1"

\* Person.memory: the travel memory the traveler's step reads and writes.
memory_of(p) == p

\* PersonAgent.step of traveler p in the world as the travelers stepped
\* before it left it.  An exception leaves shuffle_do: nobody is stepped
\* after it.
person_step(p, world, now, oracle) ==
    LET a == world.agents[p]
    IN  IF world.error # "none" THEN world
        ELSE IF a.route # None
        THEN \* _follow_route
             LET r == traverse_route(a.route.mode, a.route.path,
                                     [node |-> a.route.path[1], offset |-> a.route.path_offset],
                                     TimeStep)
                 new_path == from_node(a.route.path, r.progress.node)
                 c == remember_comfort(a.route.mode, a.route.path, new_path,
                                       world.memory[memory_of(p)], a.memory_entry,
                                       oracle.comfort[p])
             IN  IF r.error # "none" THEN [world EXCEPT !.error = r.error]
                 ELSE IF c.error # "none" THEN [world EXCEPT !.error = c.error]
                 ELSE [world EXCEPT
                         !.memory[memory_of(p)] = c.comfort_memory,
                         !.agents[p] =
                            IF r.position = None
                            THEN [a EXCEPT !.location = a.trip.destination,
                                           !.position = get_location_coords(a.trip.destination),
                                           !.trip = None, !.route = None,
                                           !.memory_entry = None, !.steps = @ + 1]
                            ELSE [a EXCEPT !.route = [mode |-> a.route.mode, path |-> new_path,
                                                      path_offset |-> r.progress.offset],
                                           !.position = r.position,
                                           !.memory_entry = c.memory_entry,
                                           !.steps = @ + 1]]
        ELSE IF a.trip # None /\ route_is_due(now, a.trip)
        THEN \* _plan_route
             LET chosen == choose_a_route(a.trip.origin, a.trip.destination,
                                          PersonInfo[p].owns_bike, PersonInfo[p].owns_car,
                                          oracle.route_id[p])
             IN  IF chosen.error # "none" THEN [world EXCEPT !.error = chosen.error]
                 ELSE [world EXCEPT !.agents[p] =
                         [a EXCEPT !.route = [chosen.route EXCEPT
                                                !.path_offset = initial_offset(now, a.trip)],
                                   !.position = get_node_coords(chosen.route.path[1]),
                                   !.memory_entry = init_route_entry(chosen.route.mode,
                                                                     chosen.route.path),
                                   !.steps = @ + 1]]
        ELSE \* waiting for the trip, or nothing to do (the day plan is empty)
             [world EXCEPT !.agents[p].steps = @ + 1]

\* agents_by_type[PersonAgent].shuffle_do("step") in the given order.
RECURSIVE StepAll(_, _, _, _, _)
StepAll(order, i, world, now, oracle) ==
    IF i > Len(order) THEN world
    ELSE StepAll(order, i + 1, person_step(order[i], world, now, oracle), now, oracle)

\* TransportModel.step.
ModelTick ==
    /\ s_world.error = "none"
    /\ \E p \in Persons : s_world.agents[p].trip # None
    /\ \E order \in Orders :
         /\ s_world' = StepAll(order, 1, s_world, s_time, s_oracle)
         /\ s_order' = order
    /\ s_time' = n_mins_from_now(s_time, TimeStep)
    /\ UNCHANGED s_oracle
    /\ UNCHANGED NonTick

\* The travelers as loaded, each with the trip its plan gave it.
TickInit ==
    /\ s_time = Time(4, 0)
    /\ s_world = [agents |-> [p \in Persons |->
                                [trip |-> [origin |-> "home", destination |-> "work",
                                           start_time |-> Time(4, 5)],
                                 route |-> None, memory_entry |-> None,
                                 location |-> "home",
                                 position |-> get_location_coords("home"),
                                 steps |-> 0]],
                  memory |-> [p \in Persons |-> <<>>],
                  error |-> "none"]
    /\ s_oracle \in Oracles
    /\ s_order = <<>>
    /\ TripStart
    /\ GapStart
    /\ ClockStart
    /\ PlanStart
    /\ CandidatesStart
    /\ MemoryStart
    /\ ResponsesStart
    /\ RoadsStart
    /\ JourneyStart
    /\ CacheStart
    /\ AverageStart("drive")
    /\ AgentStart(FALSE, FALSE)
    /\ TraverseStart("walk", <<1, 2>>, TimeStep, 0)

SpecTick == TickInit /\ [][ModelTick]_vars

(***************************************************************************)
(* Claims about Network traversal (specification SpecTraverse).            *)
(***************************************************************************)
\* The duration of the part of the route before `node`.
DurationBefore(node) ==
    get_path_duration(t_mode, t_path) - get_path_duration(t_mode, from_node(t_path, node))

\* The remaining route time before a call: the duration of the remaining
\* path minus the offset.
RemainingTime == get_path_duration(t_mode, from_node(t_path, t_progress.node))
                 - t_progress.offset

\* C1: a call whose time budget equals the remaining route time exactly is
\* an arrival: it does not fail and returns position None and leftover 0.
C1_TieIsArrival ==
    [][(t_budget' = RemainingTime)
         => (t_status' = "arrived" /\ t_position' = None /\ t_left' = 0)]_vars

\* C6: when the remaining route time exceeds the budget, the call returns
\* leftover 0, a progress at the start node of the edge the elapsed time
\* falls on, an offset within that edge (0 <= offset < edge time) and the
\* position at the proportion offset / edge time along that edge.
C6_PartwayAlongEdge ==
    [][(RemainingTime > t_budget')
         => /\ t_status' = "moving"
            /\ t_left' = 0
            /\ LET node == t_progress'.node
                   i == IndexOf(t_path, node)
                   edge_time == EdgeTimeAt(t_mode, t_path, i)
               IN  /\ i < Len(t_path)
                   /\ 0 <= t_progress'.offset
                   /\ t_progress'.offset < edge_time
                   /\ DurationBefore(node) + t_progress'.offset
                        = DurationBefore(t_progress.node) + t_progress.offset + t_budget'
                   /\ t_position' = [u |-> node, v |-> t_path[i + 1],
                                     num |-> t_progress'.offset, den |-> edge_time]]_vars

\* C6 witness: a call ended partway along the second edge of the route.
C6_Witness ==
    /\ t_status = "moving"
    /\ t_progress.node = t_path[2]
    /\ t_progress.offset > 0
    /\ t_calls >= 2

C8_ExactCover ==
    (t_offset0 = 0 /\ t_calls >= 1 /\ t_given = get_path_duration(t_mode, t_path))
      => (t_status = "arrived" /\ t_position = None
          /\ t_consumed = get_path_duration(t_mode, t_path))

(***************************************************************************)
(* Claims about the traveler's step (specification Spec).                  *)
(***************************************************************************)
\* C2: a route choice with an oracle index outside 0..len(candidates)-1
\* does not crash the step, and a candidate route is selected.
C2_OutOfRangeFallsBack ==
    (ev.branch = "plan_route" /\ ~(0 <= ev.route_id /\ ev.route_id < ev.n_routes))
      => /\ crashed = "none"
         /\ route # None
         /\ \E k \in 1..ev.n_routes :
              LET candidate == get_candidate_routes(trip.origin, trip.destination,
                                                    owns_bike, owns_car)[k]
              IN  route.mode = candidate.mode /\ memory_entry.path = candidate.path

\* No answer of a resolution is a known location.
Abandoned(r) == \A j \in 1..Len(r.answers) : ~is_location(r.answers[j])

\* C3: every destination resolution asks the oracle at most three times
\* and stops at the first answer that is a known location; when all three
\* answers are invalid the action is abandoned: no trip is created for it,
\* no error is raised, location and position are not changed by it, and
\* the next plan action is processed.
C3_BoundedResolution ==
    [][\A i \in 1..Len(ev'.resolved) :
         LET r == ev'.resolved[i]
         IN  /\ r.asked \in 1..3
             /\ \A j \in 1..(r.asked - 1) : ~is_location(r.answers[j])
             /\ is_location(r.answers[r.asked]) \/ r.asked = 3
             /\ Abandoned(r)
                  => /\ crashed' = "none"
                     /\ ~(i = Len(ev'.resolved) /\ trip' # None)
                     /\ i = Len(ev'.resolved) => daily_plan' = <<>>
                     /\ ev'.branch = "plan_day"
                          => location' = location /\ position' = position
                     /\ ev'.branch = "arrive"
                          => /\ location' = trip.destination
                             /\ position' = get_location_coords(trip.destination)]_vars

\* C3 witness: the first action of a plan was abandoned after three invalid
\* answers and the second action was then resolved into a trip.
C3_Witness ==
    /\ Len(ev.resolved) = 2
    /\ Abandoned(ev.resolved[1])
    /\ ev.resolved[1].asked = 3
    /\ trip # None
    /\ trip.start_time = ev.resolved[2].time

\* C4: at every tick of the day-start trigger time the traveler generates a
\* day plan, also when a trip is pending or under way at that tick.
C4_PlansEveryDay ==
    [][(Stepping /\ day_plan_is_due(time) /\ crashed' = "none")
         => ev'.branch = "plan_day"]_vars

\* C5: the traveler chooses a route in a step exactly when it is stationary
\* with a pending trip whose start is strictly less than two tick lengths
\* away; a routing step starts the route and keeps the trip, and a trip is
\* gone when its route ends, so no trip is routed twice and none while
\* travelling.
C5_RoutesWhenDue ==
    [][/\ (ev'.branch = "plan_route")
            <=> (route = None /\ trip # None
                 /\ time_to(time, trip.start_time) < 2 * TimeStep)
       /\ (ev'.branch = "plan_route" /\ crashed' = "none")
            => (route' # None /\ trip' = trip)
       /\ (route # None /\ route' = None) => trip' # trip]_vars

\* C5 witness: a route was chosen for a trip that starts in the middle of
\* the next tick.
C5_Witness ==
    /\ ev.branch = "plan_route"
    /\ route # None
    /\ route.path_offset < 0

\* The time traversed along the route so far: the duration of the part of
\* the chosen path already left behind, plus the offset.
Traversed ==
    get_path_duration(route.mode, memory_entry.path)
      - get_path_duration(route.mode, route.path) + route.path_offset

\* The traversed time is the time elapsed since the trip's start time
\* (negative while the start time is still ahead).
TraversedIsElapsed ==
    route # None
      => IF Traversed >= 0
         THEN time_to(trip.start_time, time) = Traversed
         ELSE time_to(time, trip.start_time) = 0 - Traversed

\* C9: a routing step puts the traveler at the first node of the chosen
\* path with offset tick length - time_to(start_time); and at the end of
\* every tick of a route the time traversed along it is the time elapsed
\* since the trip's start time.
C9_OffsetMatchesStart ==
    [][/\ (ev'.branch = "plan_route" /\ crashed' = "none")
            => /\ position' = get_node_coords(route'.path[1])
               /\ route'.path = memory_entry'.path
               /\ route'.path_offset = TimeStep - time_to(time, trip.start_time)
       /\ TraversedIsElapsed']_vars

\* C9 witness: the traveler is partway along a route, past its first node,
\* for a trip that started in the middle of a tick.
C9_Witness ==
    /\ route # None
    /\ ev.branch = "follow"
    /\ route.path[1] # memory_entry.path[1]
    /\ trip.start_time.minute % TimeStep # 0

\* C10: when traversal reports arrival, in that same step the location
\* becomes the trip's destination, the position the destination's
\* coordinates, the trip, route and in-progress memory entry are cleared,
\* and the next plan action that needs a trip (if any) is loaded as the
\* pending trip, to be routed by the lookahead rule.
C10_ArrivalStep ==
    [][(/\ Stepping /\ route # None /\ crashed' = "none"
        /\ traverse_route(route.mode, route.path,
                          [node |-> route.path[1], offset |-> route.path_offset],
                          TimeStep).position = None)
         => /\ ev'.branch = "arrive"
            /\ location' = trip.destination
            /\ position' = get_location_coords(trip.destination)
            /\ route' = None
            /\ memory_entry' = None
            /\ trip' # trip
            /\ \/ trip' = None /\ daily_plan' = <<>>
               \/ /\ trip' # None
                  /\ trip'.origin = trip.destination
                  /\ \E k \in 1..Len(daily_plan) :
                       /\ trip'.start_time = daily_plan[k].time
                       /\ daily_plan' = SubSeq(daily_plan, k + 1, Len(daily_plan))]_vars

\* C10 witness: the traveler arrived at work and the next plan action was
\* loaded as its pending trip in the same step.
C10_Witness ==
    /\ ev.branch = "arrive"
    /\ location = "work"
    /\ trip # None
    /\ trip.origin = "work"
    /\ route = None

(***************************************************************************)
(* Claims about the travel memory (specification SpecMemory).              *)
(***************************************************************************)
\* Traveler p arrives in this step.
ArrivesNow(p) == m_route[p] # None /\ m_route'[p] = None /\ m_crashed' = "none"

\* The rational `mean` is (old_mean * count + new) / (count + 1).
IsRunningAverage(mean, old_mean, count, new) ==
    mean.num * (count + 1) * old_mean.den
      = (old_mean.num * count + new * old_mean.den) * mean.den

RECURSIVE SumFrom(_, _)
SumFrom(values, i) == IF i > Len(values) THEN 0 ELSE values[i] + SumFrom(values, i + 1)

\* The entry's count is the number of recorded trip times and its mean
\* travel time is their arithmetic mean.
MeanOfRecorded(entry, recorded) ==
    /\ entry.count = Len(recorded)
    /\ Len(recorded) >= 1
         => entry.travel_time.num * Len(recorded)
              = SumFrom(recorded, 1) * entry.travel_time.den

\* C12: after N >= 1 completions recorded on a memory entry, in whatever
\* order, its count is N and its mean travel time is the arithmetic mean of
\* the N recorded trip times; the count never decreases.
C12_MeanOfRecorded ==
    [][/\ MeanOfRecorded(e_entry', e_recorded')
       /\ e_entry'.count >= e_entry.count]_vars

\* C12 witness: trip times 20 and 10, in this order, were recorded on an
\* active entry, which holds mean 15 and count 2.
C12_Witness ==
    /\ e_recorded = <<20, 10>>
    /\ e_entry.comfort # None
    /\ e_entry.count = 2
    /\ e_entry.travel_time = [num |-> 15, den |-> 1]

(***************************************************************************)
(* Claims about the comfort cache (specification SpecCache).               *)
(***************************************************************************)
\* What get_comfort has to return for a road object and a mode: the last
\* value stored for a field-equal road type and this mode, None if none.
ExpectedComfort(road, mode) ==
    IF <<road.highway, road.maxspeed, mode>> \in DOMAIN k_stored
    THEN [value |-> k_stored[<<road.highway, road.maxspeed, mode>>].value]
    ELSE None

\* C13: get_comfort(road, mode) returns None until a store_comfort for a
\* field-equal road type and the same mode has happened, and after that the
\* value of the last such store; stores for other keys leave the answer
\* unchanged and no operation removes an entry.
C13_ComfortCache ==
    [][/\ \A road \in RoadObjects, mode \in ActiveModes :
            get_comfort(k_memory', road_key(road), mode) = ExpectedComfort(road, mode)'
       /\ k_got' # k_got => k_got'.result = ExpectedComfort(k_got'.road, k_got'.mode)
       /\ \A key \in DOMAIN k_memory : key \in DOMAIN k_memory']_vars

\* C13 witness: a get_comfort call with one RoadType object returned the
\* value stored with another, field-equal object, the second value stored
\* for this key, while another key holds a different value.
C13_Witness ==
    /\ k_got # None
    /\ k_got.result = [value |-> 7]
    /\ LET key == <<k_got.road.highway, k_got.road.maxspeed, k_got.mode>>
       IN  /\ key \in DOMAIN k_stored
           /\ k_stored[key].id # k_got.road.id
           /\ \E other \in DOMAIN k_stored : other # key /\ k_stored[other].value = 3

(***************************************************************************)
(* Claims about comfort sampling (specification SpecMemory).               *)
(***************************************************************************)
\* How often traveler p has asked the oracle for a rating for `key`.
AsksOf(asks, p, key) == IF key \in DOMAIN asks[p] THEN asks[p][key] ELSE 0

ComfortKeys == RoadTypes \X Modes

\* C14: the comfort cache is shared by all travelers: once any traveler has
\* stored a rating for a (road type, mode), no traveler asks the oracle for
\* that (road type, mode) again, and all travelers read the same value.
C14_SharedCache ==
    [][\A p \in Persons, key \in ComfortKeys :
         AsksOf(m_asks', p, key) > AsksOf(m_asks, p, key)
           => \A q \in Persons : key \notin DOMAIN m_memory[q].comfort_memory]_vars

\* C15: a traveler asks the oracle for a rating only when its own cache has
\* no entry for the edge's (road type, mode), and the answer is in the
\* cache when the step is over, the value recorded for the edges crossed;
\* so over the whole run a traveler asks at most once per (road type,
\* mode).
C15_AsksOncePerKey ==
    [][\A p \in Persons, key \in ComfortKeys :
         /\ AsksOf(m_asks', p, key) <= 1
         /\ AsksOf(m_asks', p, key) > AsksOf(m_asks, p, key)
              => /\ key \notin DOMAIN m_memory[p].comfort_memory
                 /\ m_crashed' = "none"
                      => key \in DOMAIN m_memory'[p].comfort_memory
         /\ key \in DOMAIN m_memory[p].comfort_memory
              => /\ key \in DOMAIN m_memory'[p].comfort_memory
                 /\ m_memory'[p].comfort_memory[key] = m_memory[p].comfort_memory[key]
         /\ (/\ m_route[p] # None /\ m_route'[p] # None
             /\ m_route[p].mode = key[2] /\ key[2] \in ActiveModes)
              => LET old == m_route[p].path
                     crossed == Len(old) - Len(m_route'[p].path)
                     before == m_memory[p].route_memory[m_entry[p]].edge_comfort
                     after == m_memory'[p].route_memory[m_entry[p]].edge_comfort
                 IN  \A j \in 1..crossed :
                       get_road_type(edge_info(old[j], old[j + 1])) = key[1]
                         => /\ Len(after) = Len(before) + crossed
                            /\ after[Len(before) + j]
                                 = m_memory'[p].comfort_memory[key]]_vars

\* C15 witness: a traveler has arrived by bike over two edges of the same
\* road type, asked once for that type, and holds the rating in its cache.
C15_Witness ==
    /\ m_ev.op = "arrive"
    /\ m_crashed = "none"
    /\ LET p == m_ev.person
           key == <<get_road_type(edge_info(1, 2)), "bike">>
       IN  /\ m_chosen[p] = [mode |-> "bike", path |-> <<1, 2, 3>>]
           /\ m_route[p] = None
           /\ AsksOf(m_asks, p, key) = 1
           /\ key \in DOMAIN m_memory[p].comfort_memory
           /\ m_memory[p].route_memory[1].comfort = [num |-> 7, den |-> 1]

(***************************************************************************)
(* Claims about the traveler's step, continued (specification Spec).       *)
(***************************************************************************)
\* C16: on every tick of a drive route the oracle is not asked for a
\* comfort rating, the comfort cache is unchanged and nothing is added to
\* the trip's comfort accumulation.
C16_DriveSamplesNothing ==
    [][(Stepping /\ route # None /\ route.mode = "drive")
         => /\ ev'.comfort_asked = <<>>
            /\ comfort_memory' = comfort_memory
            /\ memory_entry.edge_comfort = <<>>
            /\ memory_entry.edge_lengths = <<>>
            /\ memory_entry' # None
                 => /\ memory_entry'.edge_comfort = <<>>
                    /\ memory_entry'.edge_lengths = <<>>]_vars

\* C16 witness: a traveler on a drive route has passed the first edge of
\* its path and has sampled nothing.
C16_Witness ==
    /\ ev.branch = "follow"
    /\ route # None
    /\ route.mode = "drive"
    /\ route.path # memory_entry.path
    /\ memory_entry.edge_comfort = <<>>

\* The traveler has access to the mode: walking, cycling with a bike,
\* driving with a car.
HasAccess(mode) ==
    \/ mode = "walk"
    \/ mode = "bike" /\ owns_bike
    \/ mode = "drive" /\ owns_car

\* C17: the candidate routes of the pending trip contain walking routes
\* and only routes of modes the traveler has access to, and the current
\* route's mode is always one the traveler has access to.
C17_RouteModeAccessible ==
    /\ trip # None =>
         LET routes == get_candidate_routes(trip.origin, trip.destination,
                                            owns_bike, owns_car)
         IN  /\ \E i \in 1..Len(routes) : routes[i].mode = "walk"
             /\ \A i \in 1..Len(routes) : HasAccess(routes[i].mode)
    /\ route # None => HasAccess(route.mode)

\* C17 witness: a traveler with a bike and no car is on a cycling route.
C17_Witness ==
    /\ route # None
    /\ route.mode = "bike"
    /\ owns_bike
    /\ ~owns_car
    /\ ev.branch = "plan_route"

(***************************************************************************)
(* Claims about candidate generation (specification SpecCandidates).       *)
(***************************************************************************)
\* The number of candidates of the mode in the list.
CandidatesOfMode(routes, mode) ==
    Cardinality({i \in 1..Len(routes) : routes[i].mode = mode})

\* C18: candidate generation draws only a small fixed number of ranked
\* paths per mode and does not exhaust the sequence plan_paths gives: on
\* the graph with the most simple paths, paths are left in the sequence of
\* every mode drawn from and fewer candidates than simple paths are made.
C18_DrawsFewPaths ==
    (g_ways \in g_seen /\ g_ways = MaxWays)
      => \A mode \in DOMAIN g_left :
           /\ g_left[mode] > 0
           /\ CandidatesOfMode(g_routes, mode) < g_ways

(***************************************************************************)
(* Claims about plan parsing (specification SpecPlan).                     *)
(***************************************************************************)
\* A time H:MM or HH:MM with hour 0-23 and minute 00-59, then whitespace,
\* then an action.
IsTimedLine(l) ==
    /\ Len(l.hour) \in {1, 2}
    /\ int(l.hour) \in 0..23
    /\ l.sep = <<":">>
    /\ Len(l.minute) = 2
    /\ int(l.minute) \in 0..59
    /\ l.gap # <<>>
    /\ l.action # <<>>

BeginsWithTime(l) == l.lead = <<>> /\ IsTimedLine(l)

EntryOf(l) == [time |-> Time(int(l.hour), int(l.minute)), action |-> l.action]

\* C19 as stated: the parsed plan is the subsequence of the lines that
\* begin with a time followed by whitespace and an action; nothing raises.
C19_PlanIsLinesBeginningWithTime ==
    p_done =>
      /\ p_error = "none"
      /\ LET kept == SelectSeq(p_lines, BeginsWithTime)
         IN  p_plan = [i \in 1..Len(kept) |-> EntryOf(kept[i])]

\* C19 amended: the parsed plan is the subsequence, in order, of the lines
\* that hold, after any leading whitespace, a time followed by whitespace
\* and an action; nothing raises and the previous plan is replaced.
C19_PlanIsTimedLines ==
    p_done =>
      /\ p_error = "none"
      /\ LET kept == SelectSeq(p_lines, IsTimedLine)
         IN  p_plan = [i \in 1..Len(kept) |-> EntryOf(kept[i])]

\* C19 witness: a response of three lines, one dropped between two kept,
\* replaced the plan the traveler held.
C19_Witness ==
    /\ p_done
    /\ Len(p_lines) = 3
    /\ IsTimedLine(p_lines[1])
    /\ ~IsTimedLine(p_lines[2])
    /\ IsTimedLine(p_lines[3])
    /\ p_lines[1] # p_lines[3]
    /\ Len(p_plan) = 2
    /\ p_plan[1].time = Time(23, 59)
    /\ p_plan[2].time = Time(9, 0)

(***************************************************************************)
(* Claims about the clock (specification SpecClock).                       *)
(***************************************************************************)
\* The minutes since midnight.
MinuteOfDay(t) == (60 * t.hour) + t.minute

\* C20: advancing a canonical time by a step of 0 to 59 minutes gives the
\* canonical time that many minutes later modulo 24 hours; a rollover is
\* reported, and the day counter incremented, exactly when the hour wraps
\* from 23 to 0.
C20_AdvanceModuloDay ==
    c_done =>
      LET later == (MinuteOfDay(c_ev.old) + c_ev.step) % (24 * 60)
      IN  /\ c_time \in CanonicalTimes
          /\ c_time = Time(later \div 60, later % 60)
          /\ c_ev.rolled <=> (c_ev.old.hour = 23 /\ c_time.hour = 0)
          /\ c_ev.rolled <=> (MinuteOfDay(c_ev.old) + c_ev.step >= 24 * 60)
          /\ c_ev.op = "update_clock" => c_day = (IF c_ev.rolled THEN 2 ELSE 1)

\* C20 witness: the model's clock went from 23:58 to 00:03 and a new day
\* began.
C20_Witness ==
    /\ c_done
    /\ c_ev.op = "update_clock"
    /\ c_ev.old = Time(23, 58)
    /\ c_ev.step = 5
    /\ c_time = Time(0, 3)
    /\ c_day = 2

(***************************************************************************)
(* Claims about gaps between times (specification SpecGap).                *)
(***************************************************************************)
MinutesPerDay == 24 * 60

\* C21: for canonical times a and b, a.time_to(b) is (b - a) modulo 1440
\* minutes: never negative, 0 when a equals b, always less than 1440.
C21_TimeToIsForwardDistance ==
    d_ev.op = "time_to" =>
      /\ d_gap = (MinuteOfDay(d_b) - MinuteOfDay(d_a)) % MinutesPerDay
      /\ d_gap >= 0
      /\ d_gap < MinutesPerDay
      /\ d_a = d_b => d_gap = 0

\* C21 witness: the gap from 16:30 to 4:00 on the next day is measured.
C21_Witness ==
    /\ d_ev.op = "time_to"
    /\ d_a = Time(16, 30)
    /\ d_b = Time(4, 0)
    /\ d_gap = 690

\* C22 as stated: for every n with 0 <= n < 60, the gap from the time
\* advanced by n back to the time advanced is 1440 - n.
C22_RoundTripIsDayMinusAdvance ==
    d_ev.op = "round_trip" => d_gap = MinutesPerDay - d_ev.step

\* C22 amended: for every n with 1 <= n < 60 the gap from the time advanced
\* by n back to the time advanced is 1440 - n; for n = 0 it is 0.
C22_RoundTripModuloDay ==
    d_ev.op = "round_trip" =>
      /\ d_ev.step >= 1 => d_gap = MinutesPerDay - d_ev.step
      /\ d_ev.step = 0 => d_gap = 0

\* C22 witness: 23:58 advanced by 5 minutes is 1435 minutes before 23:58.
C22_Witness ==
    /\ d_ev.op = "round_trip"
    /\ d_ev.step = 5
    /\ d_b = Time(23, 58)
    /\ d_a = Time(0, 3)
    /\ d_gap = 1435

(***************************************************************************)
(* Claims about the traveler's step, continued (specification Spec).       *)
(***************************************************************************)
IsCanonical(t) == t.hour \in 0..23 /\ t.minute \in 0..59

\* C23: the end time computed on arrival (now advanced by the tick length
\* minus the leftover time) is canonical, as is the model clock.
C23_TimesAreCanonical ==
    /\ IsCanonical(r_time)
    /\ r_status = "arrived" => IsCanonical(r_end)

IsRestOf(path, other) ==
    \E k \in 1..Len(other) : path = SubSeq(other, k, Len(other))

\* C25: once a traveler is travelling, the mode of its route, its path
\* (except for being shortened from the front) and its trip are not
\* replaced, and every trip that starts arrives after finitely many ticks.
C25_TripRunsToArrival ==
    /\ [][r_status = "travelling"
            => /\ r_route'.mode = r_route.mode
               /\ IsRestOf(r_route'.path, r_route.path)
               /\ r_trip' = r_trip]_vars
    /\ (r_status = "travelling") ~> (r_status = "arrived")

(***************************************************************************)
(* Claims about the traveler's step, continued (specification Spec).       *)
(***************************************************************************)
\* C26: with its day plan exhausted, no pending trip and no route, the
\* traveler's step changes none of its state and asks the oracle nothing
\* on every tick but the one of the day-start trigger time, at which it
\* plans its day again.
C26_IdleUntilDayStart ==
    [][(Stepping /\ daily_plan = <<>> /\ trip = None /\ route = None)
         => IF time = DayStart
            THEN ev'.branch = "plan_day"
            ELSE /\ ev'.branch = "idle"
                 /\ ev'.resolved = <<>>
                 /\ ev'.comfort_asked = <<>>
                 /\ UNCHANGED <<daily_plan, trip, route, location, position,
                                memory_entry, comfort_memory, crashed>>]_vars

\* C26 witness: a traveler that went to work on the first day and stayed
\* idle there plans again at the day start of the second day.
C26_Witness ==
    /\ ev.branch = "plan_day"
    /\ day = 2
    /\ location = "work"
    /\ route = None

(***************************************************************************)
(* Claims about a trip between locations that share their nearest node     *)
(* (specification SpecNear).                                               *)
(***************************************************************************)
\* C27: when origin and destination of a trip resolve to the same nearest
\* node, no candidate path is chosen and no route is planned for the trip.
C27_NoRouteForSameNode ==
    (r_trip # None /\ SameNearestNode(r_trip))
      => r_route = None

(***************************************************************************)
(* The journey memory specification: entries of one traveler's journey     *)
(* memory are requested, sampled and folded (routes.py TravelMemory).      *)
(***************************************************************************)
\* MemoryEntry(mode, path): a passive entry.
MemoryEntry(mode, path) ==
    [mode |-> mode, path |-> path, travel_time |-> Rat(0, 1), count |-> 0]

\* ActiveMemoryEntry(mode, path): an entry with a list of comfort values.
ActiveMemoryEntry(mode, path) ==
    [mode |-> mode, path |-> path, travel_time |-> Rat(0, 1), count |-> 0,
     comfort |-> <<>>]

\* MemoryEntry.update_travel_time: the travel time average, then the count.
update_travel_time(entry, new_time) ==
    [entry EXCEPT !.travel_time = running_average(@, entry.count, new_time),
                  !.count = @ + 1]

\* ActiveMemoryEntry.add_comfort.
add_comfort(entry, val) == [entry EXCEPT !.comfort = Append(@, val)]

\* journey_entry_by_key looking at the mode only.
journey_entry_by_mode(journey_memory, key, mode, path) ==
    IF key \notin DOMAIN journey_memory THEN 0
    ELSE LET entries == journey_memory[key]
             hits == {i \in 1..Len(entries) : entries[i].mode = mode}
         IN  IF hits = {} THEN 0 ELSE CHOOSE i \in hits : \A j \in hits : i <= j

\* TravelMemory.journey_entry_by_key: the position of the first entry of the
\* key with this mode and path, 0 for None.
journey_entry_by_key(journey_memory, key, mode, path) ==
    IF key \notin DOMAIN journey_memory THEN 0
    ELSE LET entries == journey_memory[key]
             hits == {i \in 1..Len(entries) :
                        entries[i].mode = mode /\ entries[i].path = path}
         IN  IF hits = {} THEN 0 ELSE CHOOSE i \in hits : \A j \in hits : i <= j

\* TravelMemory.get_or_init_journey: the memory afterwards, and the key and
\* position of the entry returned.
get_or_init_journey(journey_memory, a_trip, a_route) ==
    LET key == <<a_trip.origin, a_trip.destination>>
        with_key == IF key \in DOMAIN journey_memory THEN journey_memory
                    ELSE [k \in DOMAIN journey_memory \cup {key} |->
                            IF k = key THEN <<>> ELSE journey_memory[k]]
        found == journey_entry_by_key(with_key, key, a_route.mode, a_route.path)
        entry == IF a_route.mode \in {"bike", "walk"}
                 THEN ActiveMemoryEntry(a_route.mode, a_route.path)
                 ELSE MemoryEntry(a_route.mode, a_route.path)
    IN  IF found # 0
        THEN [journey_memory |-> with_key, key |-> key, index |-> found]
        ELSE [journey_memory |-> [with_key EXCEPT ![key] = Append(@, entry)],
              key |-> key, index |-> Len(with_key[key]) + 1]

\* The journeys and routes entries are requested for.
JourneyTrips == {[origin |-> "home", destination |-> "work"],
                 [origin |-> "work", destination |-> "home"]}
JourneyRoutes == {[mode |-> m, path |-> <<1, 2>>] : m \in Modes}
                   \cup {[mode |-> "walk", path |-> <<1, 3, 2>>]}

JourneyEv(op, key, mode, path) == [op |-> op, key |-> key, mode |-> mode, path |-> path]

\* The entry the last call returned.
JourneyEntry == j_memory[j_got.key][j_got.index]

\* A call of get_or_init_journey.
JourneyGetOrInit ==
    /\ j_calls < MaxTrips
    /\ \E a_trip \in JourneyTrips, a_route \in JourneyRoutes :
         LET got == get_or_init_journey(j_memory, a_trip, a_route)
         IN  /\ j_memory' = got.journey_memory
             /\ j_got' = [key |-> got.key, index |-> got.index]
             /\ j_ev' = JourneyEv("get_or_init", got.key, a_route.mode, a_route.path)
    /\ j_calls' = j_calls + 1
    /\ UNCHANGED NonJourney

\* A comfort value is added to the active entry in use, at most one for
\* each edge of its path.
JourneyAddComfort ==
    /\ j_got.index # 0
    /\ "comfort" \in DOMAIN JourneyEntry
    /\ Len(JourneyEntry.comfort) < Len(JourneyEntry.path) - 1
    /\ \E val \in ComfortValues :
         j_memory' = [j_memory EXCEPT ![j_got.key][j_got.index] = add_comfort(@, val)]
    /\ j_ev' = JourneyEv("add_comfort", j_got.key, JourneyEntry.mode, JourneyEntry.path)
    /\ UNCHANGED <<j_got, j_calls>>
    /\ UNCHANGED NonJourney

\* A completed trip is folded into the entry in use.
JourneyUpdate ==
    /\ j_got.index # 0
    /\ JourneyEntry.count < MaxTrips
    /\ \E trip_time \in TripTimes :
         j_memory' = [j_memory EXCEPT ![j_got.key][j_got.index] =
                        update_travel_time(@, Rat(trip_time, 1))]
    /\ j_ev' = JourneyEv("update", j_got.key, JourneyEntry.mode, JourneyEntry.path)
    /\ UNCHANGED <<j_got, j_calls>>
    /\ UNCHANGED NonJourney

JourneyInit ==
    /\ JourneyStart
    /\ MemoryStart
    /\ ResponsesStart
    /\ RoadsStart
    /\ TickStart
    /\ TripStart
    /\ GapStart
    /\ ClockStart
    /\ PlanStart
    /\ CandidatesStart
    /\ CacheStart
    /\ AverageStart("drive")
    /\ AgentStart(FALSE, FALSE)
    /\ TraverseStart("walk", <<1, 2>>, TimeStep, 0)

JourneyNext == JourneyGetOrInit \/ JourneyAddComfort \/ JourneyUpdate

SpecJourney == JourneyInit /\ [][JourneyNext]_vars

(***************************************************************************)
(* Claims about the creation of memory entries (specification SpecJourney).*)
(***************************************************************************)
\* The entries the journey memory holds for a key.
EntriesOf(journey_memory, key) ==
    IF key \in DOMAIN journey_memory THEN journey_memory[key] ELSE <<>>

\* C28: requesting the entry of a (mode, path) that already has one returns
\* that entry, changes no entry and adds none; otherwise one entry with
\* count 0 is appended and returned, an active one (with comfort) exactly
\* for walk and bike and a passive one for drive.
C28_CreationIsIdempotent ==
    [][j_ev'.op = "get_or_init"
         => LET before == EntriesOf(j_memory, j_ev'.key)
                after == EntriesOf(j_memory', j_ev'.key)
                had == {i \in 1..Len(before) : /\ before[i].mode = j_ev'.mode
                                               /\ before[i].path = j_ev'.path}
                new == after[Len(after)]
            IN  /\ j_got'.key = j_ev'.key
                /\ \A k \in DOMAIN j_memory \ {j_ev'.key} :
                     k \in DOMAIN j_memory' /\ j_memory'[k] = j_memory[k]
                /\ IF had # {}
                   THEN /\ after = before
                        /\ j_got'.index \in had
                        /\ Cardinality(had) = 1
                   ELSE /\ after = Append(before, new)
                        /\ j_got'.index = Len(after)
                        /\ new.mode = j_ev'.mode /\ new.path = j_ev'.path
                        /\ new.count = 0
                        /\ ("comfort" \in DOMAIN new) <=> (new.mode \in {"walk", "bike"})
                        /\ new.mode = "drive" => DOMAIN new = {"mode", "path", "travel_time", "count"}]_vars

\* C28 witness: the entry of a walk that was sampled and folded before is
\* requested again.
C28_Witness ==
    /\ j_ev.op = "get_or_init"
    /\ j_got.index = 1
    /\ JourneyEntry.mode = "walk"
    /\ JourneyEntry.count = 1
    /\ Len(JourneyEntry.comfort) = 1

(***************************************************************************)
(* Claims about the per-trip comfort accumulation (specification           *)
(* SpecMemory).                                                            *)
(***************************************************************************)
\* The lengths of the first n edges of a path.
EdgeLengthsOf(path, n) == [i \in 1..n |-> EdgeLength[<<path[i], path[i + 1]>>]]

C30_UnparseableComfortSkipped ==
    (ev.branch = "follow" /\ ev.comfort_asked # <<>>) => crashed # "ValueError"

(***************************************************************************)
(* Claims about the journey records (specification Spec).                  *)
(***************************************************************************)
\* C31: exactly one journey record is added to the journeys table by the
\* step in which a trip is completed, and none by any other step.
C31_OneRecordPerArrival ==
    [][IF ev'.branch = "arrive" /\ crashed' = "none"
       THEN Len(journeys') = Len(journeys) + 1
       ELSE journeys' = journeys]_vars

(***************************************************************************)
(* The road network specification: edge times from the edges' attributes   *)
(* and path planning on a network with parallel edges.  Speeds and times   *)
(* are exact rationals.                                                    *)
(***************************************************************************)
\* The product of two rationals, cancelled before it is multiplied out.
RatMul(r, q) ==
    LET g == GCD(Abs(r.num), q.den)
        h == GCD(Abs(q.num), r.den)
    IN  Rat((r.num \div g) * (q.num \div h), (r.den \div h) * (q.den \div g))

\* The texts of maxspeed attributes.
Mph20 == <<"2", "0", " ", "m", "p", "h">>
Mph30 == <<"3", "0", " ", "m", "p", "h">>
Kmh50 == <<"5", "0", " ", "k", "m", "/", "h">>
Bare50 == <<"5", "0">>
Signals == <<"s", "i", "g", "n", "a", "l", "s">>

\* DriveNetwork._get_num_limit: the limit in km/h; int() of a word that is
\* not a number raises ValueError, a text of one word IndexError.
get_num_limit(limit) ==
    LET parts == split_words(limit)
    IN  IF parts = <<>> THEN [error |-> "IndexError"]
        ELSE IF int(parts[1]) = -1 THEN [error |-> "ValueError"]
        ELSE IF Len(parts) < 2 THEN [error |-> "IndexError"]
        ELSE [error |-> "none",
              speed |-> IF parts[2] = <<"m", "p", "h">>
                        THEN Rat(int(parts[1]) * 1609344, 1000000)
                        ELSE Rat(int(parts[1]), 1)]

RECURSIVE SumLimits(_, _)
SumLimits(limits, i) ==
    IF i > Len(limits) THEN Rat(0, 1)
    ELSE RatPlus(get_num_limit(limits[i]).speed, SumLimits(limits, i + 1))

\* _get_speed_limit taking the first of several limits.
get_speed_limit_first(attrs) ==
    IF "maxspeed" \notin DOMAIN attrs THEN [error |-> "none", speed |-> Rat(DefaultLimit, 1)]
    ELSE IF attrs.maxspeed.is_list
         THEN get_num_limit(attrs.maxspeed.items[1])
         ELSE get_num_limit(attrs.maxspeed.items[1])

\* DriveNetwork._get_speed_limit: the default limit for an edge without
\* maxspeed, the mean of the limits of a list, else the one limit.
get_speed_limit(attrs) ==
    IF "maxspeed" \notin DOMAIN attrs THEN [error |-> "none", speed |-> Rat(DefaultLimit, 1)]
    ELSE IF attrs.maxspeed.is_list
         THEN LET limits == attrs.maxspeed.items
                  failed == {i \in 1..Len(limits) : get_num_limit(limits[i]).error # "none"}
              IN  IF failed # {}
                  THEN get_num_limit(limits[CHOOSE i \in failed : \A j \in failed : i <= j])
                  ELSE [error |-> "none",
                        speed |-> RatOver(SumLimits(limits, 1), Len(limits))]
         ELSE get_num_limit(attrs.maxspeed.items[1])

\* DriveNetwork._get_edge_time: ((length / 1000) / (limit * factor)) * 60;
\* the speed argument is not used.
drive_edge_time(attrs, speed) ==
    LET speed_limit == get_speed_limit(attrs)
    IN  IF speed_limit.error # "none" THEN [error |-> speed_limit.error]
        ELSE [error |-> "none",
              time |-> RatMul(Rat(attrs.length * 60 * SpeedFactorDen,
                                  1000 * SpeedFactorNum),
                              Rat(speed_limit.speed.den, speed_limit.speed.num))]

\* ActiveNetwork._get_edge_time: ((length / 1000) / speed) * 60.
active_edge_time(attrs, speed) ==
    [error |-> "none", time |-> Rat(attrs.length * 60, 1000 * speed)]

edge_time_of(mode, attrs, speed) ==
    IF mode = "drive" THEN drive_edge_time(attrs, speed)
    ELSE active_edge_time(attrs, speed)

\* Edge attributes: a length, and maxspeed absent, one text or a list.
OneLimit(text) == [is_list |-> FALSE, items |-> <<text>>]
LimitList(texts) == [is_list |-> TRUE, items |-> texts]
Road(length) == [length |-> length]
LimitedRoad(length, maxspeed) == [length |-> length, maxspeed |-> maxspeed]

RoadLengths == {750, 3000}
RoadLimits == {OneLimit(Mph20), OneLimit(Mph30), OneLimit(Kmh50), OneLimit(Bare50),
               OneLimit(Signals), LimitList(<<Mph20, Mph30>>),
               LimitList(<<Mph30, Kmh50>>), LimitList(<<Mph20, Mph30, Kmh50>>)}
RoadSamples == {Road(l) : l \in RoadLengths}
                 \cup {LimitedRoad(l, m) : l \in RoadLengths, m \in RoadLimits}

\* The speeds a caller passes: none (0) for driving, walking, cycling.
CallerSpeeds == {0, WalkSpeed, BikeSpeed}

\* The networks: the ways 1-2 and 2-3 in both directions, and one or two
\* parallel edges from 1 to 3 and as many from 3 to 1.
ParallelRoads ==
    {<<Road(3000)>>, <<Road(3000), Road(750)>>, <<Road(750), Road(3000)>>,
     <<LimitedRoad(3000, OneLimit(Mph30)), LimitedRoad(1500, OneLimit(Mph20))>>,
     <<LimitedRoad(1500, OneLimit(Mph20)), LimitedRoad(3000, OneLimit(Mph30))>>}

RoadGraph(out, back) ==
    [e \in DOMAIN EdgeLength |->
        CASE e = <<1, 3>> -> out
          [] e = <<3, 1>> -> back
          [] OTHER -> <<Road(EdgeLength[e])>>]

\* TransportNetwork.edge_info on a network with parallel edges: the edge
\* with key 0.
edge_info_of(graph, u, v) == graph[<<u, v>>][1]

\* osmnx to_digraph(graph): of parallel edges the first one of minimum
\* length is kept.
to_digraph(graph) ==
    [e \in DOMAIN graph |->
        LET edges == graph[e]
            k_min == CHOOSE k \in 1..Len(edges) :
                       /\ \A j \in 1..Len(edges) : edges[k].length <= edges[j].length
                       /\ \A j \in 1..(k - 1) : edges[j].length > edges[k].length
        IN  edges[k_min]]

RatLeq(a, b) == a.num * b.den <= b.num * a.den

\* The cost of a path when edge_attrs(u, v) gives an edge's attributes:
\* minutes for driving (DriveNetwork._weight_func), metres otherwise.
RECURSIVE PathCostFrom(_, _, _, _)
PathCostFrom(mode, digraph, path, i) ==
    IF i >= Len(path) THEN Rat(0, 1)
    ELSE LET attrs == digraph[<<path[i], path[i + 1]>>]
             cost == IF mode = "drive" THEN drive_edge_time(attrs, 0).time
                     ELSE Rat(attrs.length, 1)
         IN  RatPlus(cost, PathCostFrom(mode, digraph, path, i + 1))

\* The simple paths of the network from source to target.
SimplePaths(graph, source, target) ==
    {path \in UNION {[1..n -> Nodes] : n \in 1..Cardinality(Nodes)} :
        /\ path[1] = source
        /\ path[Len(path)] = target
        /\ \A i, j \in 1..Len(path) : i # j => path[i] # path[j]
        /\ \A i \in 1..(Len(path) - 1) : <<path[i], path[i + 1]>> \in DOMAIN graph}

\* networkx shortest_simple_paths(digraph, source, target, weight): every
\* simple path once, in non-decreasing weight; paths of equal weight come in
\* either order.
shortest_simple_paths(mode, digraph, source, target) ==
    LET paths == SimplePaths(digraph, source, target)
        n == Cardinality(paths)
    IN  {order \in [1..n -> paths] :
            /\ \A i, j \in 1..n : i # j => order[i] # order[j]
            /\ \A i \in 1..(n - 1) :
                 RatLeq(PathCostFrom(mode, digraph, order[i], 1),
                        PathCostFrom(mode, digraph, order[i + 1], 1))}

\* DriveNetwork.plan_paths / ActiveNetwork.plan_paths: what the iterator
\* may yield.
plan_paths_on(graph, mode, source, target) ==
    shortest_simple_paths(mode, to_digraph(graph), source, target)

\* A call of _get_edge_time of the mode's network.
RoadsEdgeTime ==
    /\ \E mode \in Modes, attrs \in RoadSamples, speed \in CallerSpeeds :
         /\ mode # "drive" => speed # 0
         /\ h_ev' = [op |-> "edge_time", mode |-> mode, attrs |-> attrs,
                     speed |-> speed, result |-> edge_time_of(mode, attrs, speed)]
    /\ UNCHANGED h_graph
    /\ UNCHANGED NonRoads

\* A call of plan_paths of the mode's network, read to the end.
RoadsPlanPaths ==
    /\ \E mode \in Modes, source \in Nodes, target \in Nodes :
         \E paths \in plan_paths_on(h_graph, mode, source, target) :
           h_ev' = [op |-> "plan_paths", mode |-> mode, source |-> source,
                    target |-> target, paths |-> paths]
    /\ UNCHANGED h_graph
    /\ UNCHANGED NonRoads

RoadsInit ==
    /\ \E roads \in ParallelRoads : h_graph = RoadGraph(roads, roads)
    /\ h_ev = [op |-> "none"]
    /\ JourneyStart
    /\ MemoryStart
    /\ ResponsesStart
    /\ TickStart
    /\ TripStart
    /\ GapStart
    /\ ClockStart
    /\ PlanStart
    /\ CandidatesStart
    /\ CacheStart
    /\ AverageStart("drive")
    /\ AgentStart(FALSE, FALSE)
    /\ TraverseStart("walk", <<1, 2>>, TimeStep, 0)

RoadsNext == RoadsEdgeTime \/ RoadsPlanPaths

SpecRoads == RoadsInit /\ [][RoadsNext]_vars

(***************************************************************************)
(* Claims about path planning and edge times (specification SpecRoads).    *)
(***************************************************************************)
\* The attributes TransportNetwork.edge_info gives for every node pair.
FirstEdges(graph) == [e \in DOMAIN graph |-> edge_info_of(graph, e[1], e[2])]

\* C32: plan_paths yields simple paths from source to target in
\* non-decreasing cost (travel time for drive, length for walk and bike),
\* the cost measured with the attributes edge_info gives (the first edge of
\* each node pair), also when a node pair has parallel edges.
C32_PathsCheapestFirst ==
    h_ev.op = "plan_paths"
      => /\ \A i \in 1..Len(h_ev.paths) :
              h_ev.paths[i] \in SimplePaths(h_graph, h_ev.source, h_ev.target)
         /\ \A i \in 1..(Len(h_ev.paths) - 1) :
              RatLeq(PathCostFrom(h_ev.mode, FirstEdges(h_graph), h_ev.paths[i], 1),
                     PathCostFrom(h_ev.mode, FirstEdges(h_graph), h_ev.paths[i + 1], 1))

\* The limit a maxspeed text states, in km/h (1 mph = 1.609344 km/h).
LimitInKmh(text) ==
    CASE text = Mph20 -> Rat(3218688, 100000)
      [] text = Mph30 -> Rat(4828032, 100000)
      [] OTHER -> Rat(50, 1)

RECURSIVE SumInKmh(_, _)
SumInKmh(texts, i) ==
    IF i > Len(texts) THEN Rat(0, 1)
    ELSE RatPlus(LimitInKmh(texts[i]), SumInKmh(texts, i + 1))

C34_TravelInformation ==
    [][/\ route' # None => (trip' # None /\ memory_entry' # None)
       /\ (trip # None /\ ev'.branch # "arrive") => trip' = trip
       /\ (ev'.branch = "arrive" /\ crashed' = "none")
            => /\ route' = None
               /\ memory_entry' = None
               /\ trip' # None => trip'.origin = trip.destination
       /\ (route' # None) <=> ~is_location(location')]_vars

(***************************************************************************)
(* Claims about trips that are loaded late (specification Spec).           *)
(***************************************************************************)
\* The minutes from the start of the simulated day (04:00) to a time.
DayOffset(t) == time_to(DayStart, t)

\* C35: a pending trip whose start time lies inside the tick in which it
\* was loaded, or had passed when it was loaded, is routed within two ticks
\* of being loaded: the traveler does not wait two ticks in a row on a trip
\* whose start time has already passed on this simulated day.
C35_LateTripStartsToday ==
    [][~(/\ ev.branch = "wait"
         /\ ev'.branch = "wait"
         /\ trip # None
         /\ DayOffset(trip.start_time) < DayOffset(time))]_vars

(***************************************************************************)
(* Claims about the duration of a completed trip (specification SpecTrip). *)
(***************************************************************************)
\* C36: the duration computed on arrival is get_path_duration of the full
\* path as chosen, wherever in a tick the trip started and however many
\* ticks it took.
C36_TripTimeIsPathDuration ==
    r_status = "arrived"
      => r_trip_time = get_path_duration(r_route.mode, r_chosen)

\* C36 witness: a trip that started in the middle of a tick and ended in a
\* later tick than its first, partway through that tick.
C36_Witness ==
    /\ r_status = "arrived"
    /\ r_trip.start_time.minute % TimeStep # 0
    /\ Len(r_chosen) > Len(r_route.path)
    /\ r_left > 0
    /\ r_left < TimeStep


(***************************************************************************)
(* Claims about the edges sampled over a trip (specification SpecMemory).  *)
(***************************************************************************)
RECURSIVE PathDistanceFrom(_, _)
PathDistanceFrom(path, i) ==
    IF i >= Len(path) THEN 0
    ELSE EdgeLength[<<path[i], path[i + 1]>>] + PathDistanceFrom(path, i + 1)

\* Network.get_path_distance: the sum of the lengths of the path's edges.
get_path_distance(path) == PathDistanceFrom(path, 1)

query_cache_by_content(cache, system_prompt, content) ==
    LET Matches(row) == row.content = content
        rows == SelectSeq(cache, Matches)
    IN  IF rows # <<>> THEN [found |-> TRUE, response |-> rows[1].response]
        ELSE [found |-> FALSE, response |-> ""]

\* query_cache: the response of the first row with this system prompt and
\* content (fetchone), or nothing found.
query_cache(cache, system_prompt, content) ==
    LET Matches(row) == row.system_prompt = system_prompt /\ row.content = content
        rows == SelectSeq(cache, Matches)
    IN  IF rows # <<>> THEN [found |-> TRUE, response |-> rows[1].response]
        ELSE [found |-> FALSE, response |-> ""]

\* generate_response: the cached response, or else the model's answer,
\* which is inserted into the table.  `asked` counts the model calls.
generate_response(cache, system_prompt, content, answer) ==
    LET hit == query_cache(cache, system_prompt, content)
    IN  IF hit.found
        THEN [cache |-> cache, response |-> hit.response, asked |-> 0]
        ELSE [cache |-> Append(cache, [system_prompt |-> system_prompt,
                                       content |-> content,
                                       response |-> answer]),
              response |-> answer, asked |-> 1]

\* drop_cache: every row with this system prompt and content is deleted.
drop_cache(cache, system_prompt, content) ==
    LET Others(row) == ~(row.system_prompt = system_prompt /\ row.content = content)
    IN  SelectSeq(cache, Others)

\* PersonAgent._get_action_location with generate_response of llm/llm.py:
\* up to three attempts with the same system prompt and prompt; answers[k]
\* is what the model would answer if attempt k asked it.
RECURSIVE CachedLocationFrom(_, _, _, _, _, _, _)
CachedLocationFrom(cache, system_prompt, prompt, current, answers, k, asked) ==
    IF k > 3
    THEN [location |-> current, valid |-> FALSE, attempts |-> 3,
          asked |-> asked, cache |-> cache]
    ELSE LET g == generate_response(cache, system_prompt, prompt, answers[k])
         IN  IF is_location(g.response)
             THEN [location |-> g.response, valid |-> TRUE, attempts |-> k,
                   asked |-> asked + g.asked, cache |-> g.cache]
             ELSE CachedLocationFrom(g.cache, system_prompt, prompt, current,
                                     answers, k + 1, asked + g.asked)

get_action_location_cached(cache, system_prompt, prompt, current, answers) ==
    CachedLocationFrom(cache, system_prompt, prompt, current, answers, 1, 0)

\* A call of generate_response.
ResponsesGenerate ==
    /\ l_ops < MaxCalls
    /\ \E system_prompt \in SystemPrompts, content \in Contents,
          answer \in ModelAnswers :
         LET g == generate_response(l_cache, system_prompt, content, answer)
         IN  /\ l_cache' = g.cache
             /\ l_asks' = [l_asks EXCEPT ![<<system_prompt, content>>] = @ + g.asked]
             /\ l_ev' = [op |-> "generate_response", system_prompt |-> system_prompt,
                         content |-> content, response |-> g.response,
                         asked |-> g.asked, attempts |-> 1]
    /\ l_ops' = l_ops + 1
    /\ UNCHANGED NonResponses

\* A call of drop_cache.
ResponsesDrop ==
    /\ l_ops < MaxCalls
    /\ \E system_prompt \in SystemPrompts, content \in Contents :
         /\ l_cache' = drop_cache(l_cache, system_prompt, content)
         /\ l_asks' = [l_asks EXCEPT ![<<system_prompt, content>>] = 0]
         /\ l_ev' = [op |-> "drop_cache", system_prompt |-> system_prompt,
                     content |-> content, response |-> "", asked |-> 0,
                     attempts |-> 0]
    /\ l_ops' = l_ops + 1
    /\ UNCHANGED NonResponses

\* A destination resolution of a traveler at home, its oracle calls served
\* by generate_response.
ResponsesResolve ==
    /\ l_ops < MaxCalls
    /\ \E system_prompt \in SystemPrompts, content \in Contents,
          answers \in [1..3 -> ModelAnswers] :
         LET r == get_action_location_cached(l_cache, system_prompt, content,
                                             "home", answers)
         IN  /\ l_cache' = r.cache
             /\ l_asks' = [l_asks EXCEPT ![<<system_prompt, content>>] = @ + r.asked]
             /\ l_ev' = [op |-> "get_action_location", system_prompt |-> system_prompt,
                         content |-> content, response |-> r.location,
                         asked |-> r.asked, attempts |-> r.attempts]
    /\ l_ops' = l_ops + 1
    /\ UNCHANGED NonResponses

ResponsesInit ==
    /\ ResponsesStart
    /\ RoadsStart
    /\ JourneyStart
    /\ MemoryStart
    /\ TickStart
    /\ TripStart
    /\ GapStart
    /\ ClockStart
    /\ PlanStart
    /\ CandidatesStart
    /\ CacheStart
    /\ AverageStart("drive")
    /\ AgentStart(FALSE, FALSE)
    /\ TraverseStart("walk", <<1, 2>>, TimeStep, 0)

ResponsesNext == ResponsesGenerate \/ ResponsesDrop \/ ResponsesResolve

SpecResponses == ResponsesInit /\ [][ResponsesNext]_vars

\* The rows of the cache table for a prompt pair.
RowsFor(cache, system_prompt, content) ==
    {i \in 1..Len(cache) :
       cache[i].system_prompt = system_prompt /\ cache[i].content = content}

\* C38: generate_response asks the model at most once per prompt pair: a
\* call for a pair that has a row returns that row's response without a
\* model call and leaves the table as it is, a call for a pair without a
\* row asks the model once, the table never holds two rows for one pair
\* nor is a pair asked twice unless it was dropped in between, and
\* drop_cache leaves no row for its pair, so the next call asks again.
C38_ModelAskedOncePerPair ==
    [][/\ l_ev'.op = "generate_response" =>
            LET rows == RowsFor(l_cache, l_ev'.system_prompt, l_ev'.content)
            IN  IF rows # {}
                THEN /\ l_ev'.asked = 0
                     /\ \A i \in rows : l_ev'.response = l_cache[i].response
                     /\ l_cache' = l_cache
                ELSE /\ l_ev'.asked = 1
                     /\ RowsFor(l_cache', l_ev'.system_prompt, l_ev'.content) # {}
       /\ l_ev'.op = "drop_cache" =>
            RowsFor(l_cache', l_ev'.system_prompt, l_ev'.content) = {}
       /\ \A pair \in PromptPairs :
            /\ Cardinality(RowsFor(l_cache', pair[1], pair[2])) <= 1
            /\ l_asks'[pair] <= 1]_vars

\* C38 witness: a pair was asked, dropped and asked again, and the last
\* call for it was served from the table without a model call.
C38_Witness ==
    /\ l_ev.op = "generate_response"
    /\ l_ev.asked = 0
    /\ l_ops = 4
    /\ l_asks[<<l_ev.system_prompt, l_ev.content>>] = 1
    /\ Len(l_cache) = 1

\* C39: every attempt of a destination resolution obtains a fresh answer
\* of the oracle, also when the answers are served through the response
\* cache: a resolution that needed more than one attempt asked the model
\* once per attempt.
C39_EveryAttemptIsFresh ==
    [][(l_ev'.op = "get_action_location" /\ l_ev'.attempts > 1) =>
         l_ev'.asked = l_ev'.attempts]_vars

(***************************************************************************)
(* Claims about the end of a run (specifications Spec and SpecLive).       *)
(***************************************************************************)
\* The stop test of TransportModel.step holds in this tick.
LastTick == time = DayStart /\ day = NDays + 1

\* C40: a run terminates: the model eventually stops running, having
\* written the journey data once.
C40_RunStopsAndWrites == <>(~running /\ csv_written = 1)

\* The safety half of C40: a step stops the model exactly when it is the
\* tick of 04:00 of day n_days + 1, and the journey data is written in
\* that step and in no other.
C40_StopsAtLastTickOnly ==
    [][(crashed' = "none") =>
         /\ (running /\ ~running') <=> LastTick
         /\ csv_written' = (IF LastTick THEN 1 ELSE 0)]_vars

====
